---- MODULE Spec2Model ----
(***************************************************************************)
(* Google Photos Takeout EXIF processor: the sidecar resolver              *)
(* (GooglePhotosProcessor._match_json), the auditor's copy of it           *)
(* (GooglePhotosValidator._find_json_for_media) and the per-file pipeline  *)
(* (run / _process_folder / _process_file).                                *)
(*                                                                         *)
(* File names are TLA+ strings; the Python string operations the code      *)
(* uses (lower, startswith, slicing, the four regular expressions) are     *)
(* computed character by character.                                        *)
(***************************************************************************)
EXTENDS Integers, Sequences, FiniteSets, TLC

(***************************************************************************)
(* Python string operations                                                *)
(***************************************************************************)
UpperCase == "ABCDEFGHIJKLMNOPQRSTUVWXYZ"
LowerCase == "abcdefghijklmnopqrstuvwxyz"
Digits == {"0", "1", "2", "3", "4", "5", "6", "7", "8", "9"}

CharAt(s, i) == SubSeq(s, i, i)

UpperChars == {CharAt(UpperCase, i) : i \in 1..Len(UpperCase)}
LowerOf ==
    [c \in UpperChars |->
        CharAt(LowerCase, CHOOSE i \in 1..Len(UpperCase) : CharAt(UpperCase, i) = c)]

\* str.lower() of one character
LowerChar(c) == IF c \in UpperChars THEN LowerOf[c] ELSE c

RECURSIVE Lower(_)
\* str.lower()
Lower(s) ==
    IF s = "" THEN "" ELSE LowerChar(CharAt(s, 1)) \o Lower(SubSeq(s, 2, Len(s)))

\* a.lower() == b.lower(), compared character by character
EqLower(a, b) ==
    /\ Len(a) = Len(b)
    /\ \A i \in 1..Len(a) : LowerChar(CharAt(a, i)) = LowerChar(CharAt(b, i))

\* str.startswith / str.endswith
EndsWith(s, p) == Len(p) <= Len(s) /\ SubSeq(s, Len(s) - Len(p) + 1, Len(s)) = p

\* s.lower().startswith(p.lower()) and s.lower().endswith(p.lower())
StartsWithLower(s, p) == Len(p) <= Len(s) /\ EqLower(SubSeq(s, 1, Len(p)), p)
EndsWithLower(s, p) ==
    Len(p) <= Len(s) /\ EqLower(SubSeq(s, Len(s) - Len(p) + 1, Len(s)), p)

\* s[:n] for n >= 0 and s[:-n] for n > 0
Prefix(s, n) == SubSeq(s, 1, IF n < Len(s) THEN n ELSE Len(s))
DropLast(s, n) == SubSeq(s, 1, Len(s) - n)

\* position of the last "." of s, 0 when there is none
LastDot(s) ==
    LET dots == {i \in 1..Len(s) : CharAt(s, i) = "."}
    IN  IF dots = {} THEN 0 ELSE CHOOSE i \in dots : \A k \in dots : k <= i

\* (\.[^.]+)$ : the text from the last dot on, when a character follows it
HasExtGroup(s) == LastDot(s) > 0 /\ LastDot(s) < Len(s)
ExtGroup(s) == SubSeq(s, LastDot(s), Len(s))

\* pathlib's PurePath.suffix: the last dot must be neither first nor last
Suffix(s) == IF LastDot(s) > 1 /\ LastDot(s) < Len(s) THEN ExtGroup(s) ELSE ""

\* \((\d+)\) ending at position q: the position of its "(", 0 when q does not
\* close a parenthesised number
OpenParen(s, q) ==
    IF q < 3 \/ q > Len(s) \/ CharAt(s, q) # ")" THEN 0
    ELSE LET nd == {i \in 1..(q - 1) : CharAt(s, i) \notin Digits}
             p  == IF nd = {} THEN 0 ELSE CHOOSE i \in nd : \A k \in nd : k <= i
         IN  IF p > 0 /\ p < q - 1 /\ CharAt(s, p) = "(" THEN p ELSE 0

\* re.match(r"^(.+)\((\d+)\)(\.[^.]+)$", name)
ParenMatch(name) ==
    /\ HasExtGroup(name)
    /\ OpenParen(name, LastDot(name) - 1) > 1
ParenBase(name) == SubSeq(name, 1, OpenParen(name, LastDot(name) - 1) - 1)
ParenNum(name) ==
    SubSeq(name, OpenParen(name, LastDot(name) - 1) + 1, LastDot(name) - 2)

\* re.match(r"^(.*)-edited(\.[^.]+)$", name, re.IGNORECASE)
EditedMatch(name) ==
    /\ HasExtGroup(name)
    /\ LastDot(name) > 7
    /\ EqLower(SubSeq(name, LastDot(name) - 7, LastDot(name) - 1), "-edited")
EditedBase(name) == SubSeq(name, 1, LastDot(name) - 8) \o ExtGroup(name)

\* re.match(r"^(.+)\(\d+\)\.mp4$", name, re.IGNORECASE)
DupMp4Match(name) ==
    /\ EndsWithLower(name, ".mp4")
    /\ OpenParen(name, Len(name) - 4) > 1
DupMp4Base(name) == SubSeq(name, 1, OpenParen(name, Len(name) - 4) - 1)

\* re.match(r"^(.*)\.png$", name, re.IGNORECASE)
PngMatch(name) == EndsWithLower(name, ".png")

\* first index of 1..n satisfying P, 0 when there is none (a for loop that
\* returns at its first hit)
FirstIdx(n, P(_)) ==
    IF \E i \in 1..n : P(i)
    THEN CHOOSE i \in 1..n : P(i) /\ \A k \in 1..(i - 1) : ~P(k)
    ELSE 0

(***************************************************************************)
(* Sidecar contents.  A sidecar body is what json.loads makes of the       *)
(* file: kind "malformed" (json.loads raises, _load_json returns None),    *)
(* "falsy" (a value such as {} or [] that parses and is false), "scalar"   *)
(* (a true value that is no dict, such as [1]: it has no .get) or          *)
(* "object".  A time field of an object is "absent", "scalar" (present     *)
(* but no dict) or "object" with a timestamp string ("" when the key is    *)
(* missing or empty).  geoData is "absent", "scalar" or "object" with the  *)
(* numbers latitude, longitude and altitude, each <<>> when its key is     *)
(* missing and <<v>> when it is v; people is the list of the names of the  *)
(* people entries ("" for an entry without a name); description and url    *)
(* are "" when the key is missing or empty.                                *)
(***************************************************************************)
NoTime == [obj |-> "absent", timestamp |-> ""]
ScalarTime == [obj |-> "scalar", timestamp |-> ""]
Time(ts) == [obj |-> "object", timestamp |-> ts]

NoGeo == [obj |-> "absent", latitude |-> <<>>, longitude |-> <<>>, altitude |-> <<>>]
Geo(latitude, longitude, altitude) ==
    [obj |-> "object", latitude |-> latitude, longitude |-> longitude, altitude |-> altitude]

Object(title, pt, ct) ==
    [kind |-> "object", title |-> title, photoTakenTime |-> pt, creationTime |-> ct,
     geoData |-> NoGeo, people |-> <<>>, description |-> "", url |-> ""]
Malformed == [Object("", NoTime, NoTime) EXCEPT !.kind = "malformed"]
Falsy == [Object("", NoTime, NoTime) EXCEPT !.kind = "falsy"]
Scalar == [Object("", NoTime, NoTime) EXCEPT !.kind = "scalar"]

\* truth value of what _load_json returned
Truthy(body) == body.kind \in {"scalar", "object"}

JSON_LENGTH_LIMIT == 50

(***************************************************************************)
(* GooglePhotosProcessor._match_json.  json_files is the candidate list    *)
(* in enumeration order; the result names the index of the returned        *)
(* sidecar (0: the empty list), the rule that returned it, the number of   *)
(* sidecar bodies loaded on the way and whether the call raised.           *)
(***************************************************************************)
MatchResult(j, rule, loads, fault) ==
    [j |-> j, rule |-> rule, loads |-> loads, fault |-> fault]

\* rule 8 loop: data = _load_json(j); data and data.get("title") == name
TitleStops(name, json_files, i) ==
    /\ Truthy(json_files[i].body)
    /\ \/ json_files[i].body.kind = "scalar"
       \/ json_files[i].body.title = name

\* Rule 8 - title fallback
MatchRule8(name, json_files) ==
    LET n == Len(json_files)
        i == FirstIdx(n, LAMBDA k : TitleStops(name, json_files, k))
    IN  IF i = 0 THEN MatchResult(0, 0, n, FALSE)
        ELSE IF json_files[i].body.kind = "scalar" THEN MatchResult(0, 0, i, TRUE)
        ELSE MatchResult(i, 8, i, FALSE)

\* Rule 1 - exact match: j.name.lower() == (name + ".json").lower()
Pattern1(name, jname) == EqLower(jname, name \o ".json")

Rule1(name, json_files) ==
    FirstIdx(Len(json_files), LAMBDA i : Pattern1(name, json_files[i].name))

\* Rule 2 - truncated match, only when name + ".json" is longer than the limit:
\* j.name.lower().startswith(name[:limit - 5].lower())
Pattern2(name, jname) ==
    /\ Len(name \o ".json") > JSON_LENGTH_LIMIT
    /\ StartsWithLower(jname, Prefix(name, JSON_LENGTH_LIMIT - 5))

Rule2(name, json_files) ==
    FirstIdx(Len(json_files), LAMBDA i : Pattern2(name, json_files[i].name))

\* Rule 3 - parenthetical match: <base>(<N>)<ext> -> <base><ext>(<N>).json
Pattern3(name, jname) ==
    /\ ParenMatch(name)
    /\ EqLower(jname, ParenBase(name) \o ExtGroup(name)
                         \o "(" \o ParenNum(name) \o ").json")

Rule3(name, json_files) ==
    FirstIdx(Len(json_files), LAMBDA i : Pattern3(name, json_files[i].name))

\* Rule 4 - "-edited" removed from the filename
Pattern4(name, jname) ==
    /\ EditedMatch(name)
    /\ EqLower(jname, EditedBase(name) \o ".json")

Rule4(name, json_files) ==
    FirstIdx(Len(json_files), LAMBDA i : Pattern4(name, json_files[i].name))

\* the comparisons of rules 5 and 6: <base>.JPG.json and <base>.HEIC.json
JpgJson(base_name, jname) == EqLower(jname, base_name \o ".JPG" \o ".json")
HeicJson(base_name, jname) == EqLower(jname, base_name \o ".HEIC" \o ".json")

\* the two loops of rules 5 and 6: every candidate is tried against the JPG
\* name first, then every candidate against the HEIC name
LivePhoto(base_name, json_files) ==
    LET jpg  == FirstIdx(Len(json_files), LAMBDA i : JpgJson(base_name, json_files[i].name))
        heic == FirstIdx(Len(json_files), LAMBDA i : HeicJson(base_name, json_files[i].name))
    IN  IF jpg # 0 THEN jpg ELSE heic

\* Rule 5 - MP4/JPG or MP4/HEIC fallback
Pattern5(name, jname) ==
    /\ EndsWithLower(name, ".mp4")
    /\ JpgJson(DropLast(name, 4), jname) \/ HeicJson(DropLast(name, 4), jname)

\* no fallback from a video to the sidecar of its still
Rule5NoFallback(name, json_files) == 0

Rule5(name, json_files) ==
    IF EndsWithLower(name, ".mp4") THEN LivePhoto(DropLast(name, 4), json_files) ELSE 0

\* Rule 6 - (N).mp4/JPG or (N).mp4/HEIC fallback
Pattern6(name, jname) ==
    /\ DupMp4Match(name)
    /\ JpgJson(DupMp4Base(name), jname) \/ HeicJson(DupMp4Base(name), jname)

Rule6(name, json_files) ==
    IF DupMp4Match(name) THEN LivePhoto(DupMp4Base(name), json_files) ELSE 0

\* Rule 7 - PNG fallback: <base>.png -> <base>.json
Pattern7(name, jname) ==
    /\ PngMatch(name)
    /\ EqLower(jname, DropLast(name, 4) \o ".json")

Rule7(name, json_files) ==
    FirstIdx(Len(json_files), LAMBDA i : Pattern7(name, json_files[i].name))

\* Rule 8 - title fallback: the test of the loop on one candidate that loads
\* as a dict
Pattern8(name, body) == body.kind = "object" /\ body.title = name

\* the filename rules in the order the code tries them: <<index, rule>> of
\* the first rule whose loop returns, <<0, 0>> when none does
FilenameRules(name, json_files) ==
    LET r1 == Rule1(name, json_files)
        r2 == Rule2(name, json_files)
        r3 == Rule3(name, json_files)
        r4 == Rule4(name, json_files)
        r5 == Rule5(name, json_files)
        r6 == Rule6(name, json_files)
        r7 == Rule7(name, json_files)
    IN  IF r1 # 0 THEN <<r1, 1>>
        ELSE IF r2 # 0 THEN <<r2, 2>>
        ELSE IF r3 # 0 THEN <<r3, 3>>
        ELSE IF r4 # 0 THEN <<r4, 4>>
        ELSE IF r5 # 0 THEN <<r5, 5>>
        ELSE IF r6 # 0 THEN <<r6, 6>>
        ELSE IF r7 # 0 THEN <<r7, 7>>
        ELSE <<0, 0>>

\* the title rule tried before the filename rules
MatchJsonTitleFirst(name, json_files) ==
    LET t == MatchRule8(name, json_files)
        f == FilenameRules(name, json_files)
    IN  IF t.j # 0 \/ t.fault \/ f[1] = 0 THEN t
        ELSE MatchResult(f[1], f[2], t.loads, FALSE)

MatchJson(name, json_files) ==
    LET f == FilenameRules(name, json_files)
    IN  IF f[1] # 0 THEN MatchResult(f[1], f[2], 0, FALSE)
        ELSE MatchRule8(name, json_files)

\* self.folder_rule_counts[rule] += 1, which _match_json does before it
\* returns a match
\* every match counted under rule 1
CountRuleFirst(counts, m) ==
    IF m.j = 0 THEN counts ELSE [counts EXCEPT ![1] = @ + 1]

CountRule(counts, m) ==
    IF m.j = 0 THEN counts ELSE [counts EXCEPT ![m.rule] = @ + 1]

(***************************************************************************)
(* GooglePhotosValidator._find_json_for_media: the auditor's resolver.     *)
(* It differs from _match_json in rule 2, which also requires the          *)
(* candidate to end in ".json" and its name without ".json" to be a        *)
(* prefix of the media name.                                               *)
(***************************************************************************)
FindJsonForMedia(media_name, json_files) ==
    LET n     == Len(json_files)
        jn(i) == json_files[i].name
        exact_json == media_name \o ".json"
        r1    == FirstIdx(n, LAMBDA i : EqLower(jn(i), exact_json))
        truncated == Prefix(media_name, JSON_LENGTH_LIMIT - 5)
        r2    == IF Len(exact_json) > JSON_LENGTH_LIMIT
                 THEN FirstIdx(n, LAMBDA i :
                        /\ StartsWithLower(jn(i), truncated)
                        /\ EndsWithLower(jn(i), ".json")
                        /\ StartsWithLower(media_name, DropLast(jn(i), 5)))
                 ELSE 0
        alt_json == ParenBase(media_name) \o ExtGroup(media_name)
                      \o "(" \o ParenNum(media_name) \o ").json"
        r3    == IF ParenMatch(media_name)
                 THEN FirstIdx(n, LAMBDA i : EqLower(jn(i), alt_json))
                 ELSE 0
        rule4_json == EditedBase(media_name) \o ".json"
        r4    == IF EditedMatch(media_name)
                 THEN FirstIdx(n, LAMBDA i : EqLower(jn(i), rule4_json))
                 ELSE 0
        live(base_name) ==
            LET jpg_json_name  == base_name \o ".JPG" \o ".json"
                heic_json_name == base_name \o ".HEIC" \o ".json"
                jpg  == FirstIdx(n, LAMBDA i : EqLower(jn(i), jpg_json_name))
                heic == FirstIdx(n, LAMBDA i : EqLower(jn(i), heic_json_name))
            IN  IF jpg # 0 THEN jpg ELSE heic
        r5    == IF EndsWithLower(media_name, ".mp4")
                 THEN live(DropLast(media_name, 4)) ELSE 0
        r6    == IF DupMp4Match(media_name) THEN live(DupMp4Base(media_name)) ELSE 0
        png_json_name == DropLast(media_name, 4) \o ".json"
        r7    == IF PngMatch(media_name)
                 THEN FirstIdx(n, LAMBDA i : EqLower(jn(i), png_json_name))
                 ELSE 0
    IN  IF r1 # 0 THEN MatchResult(r1, 1, 0, FALSE)
        ELSE IF r2 # 0 THEN MatchResult(r2, 2, 0, FALSE)
        ELSE IF r3 # 0 THEN MatchResult(r3, 3, 0, FALSE)
        ELSE IF r4 # 0 THEN MatchResult(r4, 4, 0, FALSE)
        ELSE IF r5 # 0 THEN MatchResult(r5, 5, 0, FALSE)
        ELSE IF r6 # 0 THEN MatchResult(r6, 6, 0, FALSE)
        ELSE IF r7 # 0 THEN MatchResult(r7, 7, 0, FALSE)
        ELSE MatchRule8(media_name, json_files)

(***************************************************************************)
(* Timestamps.  int(ts) of a timestamp string, and the year and month of   *)
(* datetime.fromtimestamp(int(ts), tz=UTC).astimezone(PACIFIC).            *)
(***************************************************************************)
\* int(ts) raises ValueError unless ts is a decimal numeral (signs, spaces
\* and underscores, which int() also accepts, are not among the inputs)
IsNumeral(ts) == ts # "" /\ \A i \in 1..Len(ts) : CharAt(ts, i) \in Digits

RECURSIVE IntOf(_)
IntOf(ts) ==
    IF ts = "" THEN 0
    ELSE 10 * IntOf(DropLast(ts, 1))
           + (CHOOSE d \in 0..9 : CharAt("0123456789", d + 1) = CharAt(ts, Len(ts)))

\* f"{n:02d}"
Pad2(n) == IF n < 10 THEN "0" \o ToString(n) ELSE ToString(n)

\* days since 1970-01-01 of the civil date y-m-d (proleptic Gregorian)
DaysFromCivil(y, m, d) ==
    LET yy  == IF m <= 2 THEN y - 1 ELSE y
        era == yy \div 400
        yoe == yy - era * 400
        mp  == IF m > 2 THEN m - 3 ELSE m + 9
        doy == (153 * mp + 2) \div 5 + d - 1
        doe == yoe * 365 + yoe \div 4 - yoe \div 100 + doy
    IN  era * 146097 + doe - 719468

\* <<year, month, day>> of the day z days after 1970-01-01
CivilFromDays(z) ==
    LET zz  == z + 719468
        era == zz \div 146097
        doe == zz - era * 146097
        yoe == (doe - doe \div 1460 + doe \div 36524 - doe \div 146096) \div 365
        doy == doe - (365 * yoe + yoe \div 4 - yoe \div 100)
        mp  == (5 * doy + 2) \div 153
        d   == doy - (153 * mp + 2) \div 5 + 1
        m   == IF mp < 10 THEN mp + 3 ELSE mp - 9
        y   == yoe + era * 400
    IN  <<IF m <= 2 THEN y + 1 ELSE y, m, d>>

\* the first day of month m of year y, on or after day d, that is a Sunday
SundayOnOrAfter(y, m, d) ==
    LET z == DaysFromCivil(y, m, d)
    IN  z + ((7 - ((z + 4) % 7)) % 7)

\* America/Los_Angeles since 2007: daylight time from the second Sunday of
\* March, 10:00 UTC, to the first Sunday of November, 09:00 UTC
PacificOffset(t) ==
    LET y      == CivilFromDays(t \div 86400)[1]
        starts == SundayOnOrAfter(y, 3, 8) * 86400 + 10 * 3600
        ends   == SundayOnOrAfter(y, 11, 1) * 86400 + 9 * 3600
    IN  IF starts <= t /\ t < ends THEN -7 * 3600 ELSE -8 * 3600

\* dt = datetime.fromtimestamp(t, tz=UTC).astimezone(PACIFIC): <<dt.year, dt.month>>
PacificYearMonth(t) ==
    LET c == CivilFromDays((t + PacificOffset(t)) \div 86400)
    IN  <<c[1], c[2]>>

(***************************************************************************)
(* GooglePhotosProcessor: the file formats and _process_file.              *)
(***************************************************************************)
MEDIA_EXTS ==
    {".jpg", ".jpeg", ".png", ".gif", ".bmp", ".tiff", ".tif",
     ".mp4", ".mov", ".avi", ".mkv", ".webm", ".m4v", ".3gp",
     ".heic", ".heif"}
WRITABLE_FORMATS ==
    {".jpg", ".jpeg", ".png", ".tiff", ".tif", ".heic", ".heif",
     ".mp4", ".mov", ".m4v", ".3gp"}
READ_ONLY_FORMATS == {".avi", ".mkv", ".webm", ".gif", ".bmp"}

\* p.suffix.lower() in exts
SuffixIn(name, exts) == Lower(Suffix(name)) \in exts

\* creationTime looked at before photoTakenTime
TimestampCreationFirst(meta) ==
    IF meta.creationTime.obj = "scalar" THEN [raises |-> TRUE, ts |-> "", field |-> ""]
    ELSE IF meta.creationTime.timestamp # ""
         THEN [raises |-> FALSE, ts |-> meta.creationTime.timestamp,
               field |-> "creationTime"]
    ELSE IF meta.photoTakenTime.obj = "scalar" THEN [raises |-> TRUE, ts |-> "", field |-> ""]
    ELSE [raises |-> FALSE, ts |-> meta.photoTakenTime.timestamp,
          field |-> IF meta.photoTakenTime.timestamp # "" THEN "photoTakenTime" ELSE ""]

\* ts = meta.get("photoTakenTime", {}).get("timestamp")
\*      or meta.get("creationTime", {}).get("timestamp")
\* "raises" is the AttributeError of .get on a time field that is no dict; the
\* right operand of "or" is evaluated only when the left one is false
Timestamp(meta) ==
    IF meta.photoTakenTime.obj = "scalar" THEN [raises |-> TRUE, ts |-> "", field |-> ""]
    ELSE IF meta.photoTakenTime.timestamp # ""
         THEN [raises |-> FALSE, ts |-> meta.photoTakenTime.timestamp,
               field |-> "photoTakenTime"]
    ELSE IF meta.creationTime.obj = "scalar" THEN [raises |-> TRUE, ts |-> "", field |-> ""]
    ELSE [raises |-> FALSE, ts |-> meta.creationTime.timestamp,
          field |-> IF meta.creationTime.timestamp # "" THEN "creationTime" ELSE ""]

\* the local time formatted from the UTC instant, with no conversion
JsonTimeToUTC(ts) ==
    IF ~IsNumeral(ts) THEN ""
    ELSE LET c   == CivilFromDays(IntOf(ts) \div 86400)
             sod == IntOf(ts) % 86400
         IN  ToString(c[1]) \o ":" \o Pad2(c[2]) \o ":" \o Pad2(c[3]) \o " "
               \o Pad2(sod \div 3600) \o ":" \o Pad2((sod % 3600) \div 60)
               \o ":" \o Pad2(sod % 60)

\* _json_time_to_pacific: strftime("%Y:%m:%d %H:%M:%S") of the Pacific
\* instant, "" when the conversion raises
JsonTimeToPacific(ts) ==
    IF ~IsNumeral(ts) THEN ""
    ELSE LET t   == IntOf(ts) + PacificOffset(IntOf(ts))
             c   == CivilFromDays(t \div 86400)
             sod == t % 86400
         IN  ToString(c[1]) \o ":" \o Pad2(c[2]) \o ":" \o Pad2(c[3]) \o " "
               \o Pad2(sod \div 3600) \o ":" \o Pad2((sod % 3600) \div 60)
               \o ":" \o Pad2(sod % 60)

\* _build_cmd, "# Dates": the time field whose timestamp the walrus tests
\* accept, and the date string the five date arguments carry
BuildCmdDate(meta) ==
    IF meta.photoTakenTime.obj = "scalar" THEN [raises |-> TRUE, field |-> "", date_str |-> ""]
    ELSE IF meta.photoTakenTime.timestamp # ""
         THEN [raises |-> FALSE, field |-> "photoTakenTime",
               date_str |-> JsonTimeToPacific(meta.photoTakenTime.timestamp)]
    ELSE IF meta.creationTime.obj = "scalar" THEN [raises |-> TRUE, field |-> "", date_str |-> ""]
    ELSE IF meta.creationTime.timestamp # ""
         THEN [raises |-> FALSE, field |-> "creationTime",
               date_str |-> JsonTimeToPacific(meta.creationTime.timestamp)]
    ELSE [raises |-> FALSE, field |-> "", date_str |-> ""]

\* GPSAltitude appended whenever the altitude is true, outside the test of
\* latitude and longitude
BuildCmdAltitudeAlone(meta, target_path) ==
    LET date_str == BuildCmdDate(meta).date_str
        geo == meta.geoData
        True(n) == n # <<>> /\ n[1] # 0
        Str(n) == IF n = <<>> THEN "0" ELSE ToString(n[1])
        named == SelectSeq(meta.people, LAMBDA p : p # "")
        names[n \in 0..Len(named)] ==
            IF n = 0 THEN ""
            ELSE IF n = 1 THEN named[1] ELSE names[n - 1] \o "; " \o named[n]
    IN  [raises |-> BuildCmdDate(meta).raises \/ geo.obj = "scalar",
         cmd |-> <<"exiftool", "-overwrite_original", "-q", "-m">>
                 \o (IF date_str # ""
                     THEN <<"-DateTimeOriginal=" \o date_str, "-CreateDate=" \o date_str,
                            "-ModifyDate=" \o date_str, "-FileModifyDate=" \o date_str,
                            "-FileCreateDate=" \o date_str>>
                     ELSE <<>>)
                 \o (IF True(geo.latitude) \/ True(geo.longitude)
                     THEN <<"-GPSLatitude=" \o Str(geo.latitude),
                            "-GPSLongitude=" \o Str(geo.longitude)>>
                     ELSE <<>>)
                 \o (IF True(geo.altitude)
                     THEN <<"-GPSAltitude=" \o ToString(geo.altitude[1])>> ELSE <<>>)
                 \o (IF names[Len(named)] # ""
                     THEN <<"-Keywords=" \o names[Len(named)],
                            "-Subject=" \o names[Len(named)]>>
                     ELSE <<>>)
                 \o (IF meta.description # ""
                     THEN <<"-ImageDescription=" \o meta.description>> ELSE <<>>)
                 \o <<target_path>>]

\* _build_cmd: the argument list of the Metadata Writer; "raises" is the
\* AttributeError of .get on a time field or a geoData that is no dict, the
\* only exceptions the sidecars of the universe can cause
BuildCmd(meta, target_path) ==
    LET date_str == BuildCmdDate(meta).date_str
        geo == meta.geoData
        True(n) == n # <<>> /\ n[1] # 0
        Str(n) == IF n = <<>> THEN "0" ELSE ToString(n[1])
        named == SelectSeq(meta.people, LAMBDA p : p # "")
        names[n \in 0..Len(named)] ==
            IF n = 0 THEN ""
            ELSE IF n = 1 THEN named[1] ELSE names[n - 1] \o "; " \o named[n]
    IN  [raises |-> BuildCmdDate(meta).raises \/ geo.obj = "scalar",
         cmd |-> <<"exiftool", "-overwrite_original", "-q", "-m">>
                 \o (IF date_str # ""
                     THEN <<"-DateTimeOriginal=" \o date_str, "-CreateDate=" \o date_str,
                            "-ModifyDate=" \o date_str, "-FileModifyDate=" \o date_str,
                            "-FileCreateDate=" \o date_str>>
                     ELSE <<>>)
                 \o (IF True(geo.latitude) \/ True(geo.longitude)
                     THEN <<"-GPSLatitude=" \o Str(geo.latitude),
                            "-GPSLongitude=" \o Str(geo.longitude)>>
                          \o (IF True(geo.altitude)
                              THEN <<"-GPSAltitude=" \o ToString(geo.altitude[1])>>
                              ELSE <<>>)
                     ELSE <<>>)
                 \o (IF names[Len(named)] # ""
                     THEN <<"-Keywords=" \o names[Len(named)],
                            "-Subject=" \o names[Len(named)]>>
                     ELSE <<>>)
                 \o (IF meta.description # ""
                     THEN <<"-ImageDescription=" \o meta.description>> ELSE <<>>)
                 \o <<target_path>>]

NoLocation == <<>>

\* what _process_file does with one file: the Outcome ("fault": an exception
\* leaves the method), whether the file was copied and where, how often the
\* Metadata Writer ran, and the modification time the copy ends with
FileResult(outcome, reason, location, exiftool_runs, mtime) ==
    [outcome |-> outcome, reason |-> reason, location |-> location,
     exiftool_runs |-> exiftool_runs, mtime |-> mtime]

NoMtime == [by |-> "none", t |-> 0]

\* the local wall-clock seconds taken for seconds since the epoch
ModTimeWallClock(t) == t + PacificOffset(t)

\* mod_time = pacific_dt.timestamp(): the local wall-clock seconds less the
\* UTC offset the aware datetime carries
ModTime(t) == (t + PacificOffset(t)) - PacificOffset(t)

\* the Metadata Writer's exit status ignored
EmbedIgnoringStatus(name, t, location, returncode) ==
    IF SuffixIn(name, READ_ONLY_FORMATS)
    THEN FileResult("copied_only", "read-only format", location, 0,
                    [by |-> "utime", t |-> ModTime(t)])
    ELSE FileResult("metadata_embedded", "", location, 1, [by |-> "exiftool", t |-> t])

\* the read-only formats handed to the Metadata Writer like the others
EmbedEveryFormat(name, t, location, returncode) ==
    IF returncode = 0
    THEN FileResult("metadata_embedded", "", location, 1, [by |-> "exiftool", t |-> t])
    ELSE FileResult("copied_only", "embedding failed", location, 1,
                    [by |-> "utime", t |-> ModTime(t)])

\* the part of _process_file after shutil.copy2; returncode is the exit
\* status of the Metadata Writer if it is run
Embed(name, t, location, returncode) ==
    IF SuffixIn(name, READ_ONLY_FORMATS)
    THEN FileResult("copied_only", "read-only format", location, 0,
                    [by |-> "utime", t |-> ModTime(t)])
    ELSE IF returncode = 0
         THEN FileResult("metadata_embedded", "", location, 1,
                         [by |-> "exiftool", t |-> t])
         ELSE FileResult("copied_only", "embedding failed", location, 1,
                         [by |-> "utime", t |-> ModTime(t)])

\* the partition taken from the UTC instant, with no conversion to local time
LocationUTC(name, t) ==
    LET c == CivilFromDays(t \div 86400)
    IN  <<ToString(c[1]), Pad2(c[2]), name>>

\* the archive location: out_base / str(dt.year) / f"{dt.month:02d}" / media.name
Location(name, t) ==
    <<ToString(PacificYearMonth(t)[1]), Pad2(PacificYearMonth(t)[2]), name>>

\* the file copied before its sidecar is looked at, to the partition of the
\* epoch when no timestamp is found
ProcessFileCopyFirst(name, meta, returncode) ==
    IF ~Truthy(meta)
    THEN FileResult("skipped", "bad JSON", Location(name, 0), 0, NoMtime)
    ELSE IF meta.kind = "scalar" THEN FileResult("fault", "AttributeError", NoLocation, 0, NoMtime)
    ELSE IF Timestamp(meta).raises
         THEN FileResult("fault", "AttributeError", NoLocation, 0, NoMtime)
    ELSE IF Timestamp(meta).ts = ""
         THEN FileResult("skipped", "no timestamp", Location(name, 0), 0, NoMtime)
    ELSE IF ~IsNumeral(Timestamp(meta).ts)
         THEN FileResult("fault", "ValueError", NoLocation, 0, NoMtime)
    ELSE Embed(name, IntOf(Timestamp(meta).ts),
               Location(name, IntOf(Timestamp(meta).ts)), returncode)

ProcessFile(name, meta, returncode) ==
    IF ~Truthy(meta) THEN FileResult("skipped", "bad JSON", NoLocation, 0, NoMtime)
    ELSE IF meta.kind = "scalar" THEN FileResult("fault", "AttributeError", NoLocation, 0, NoMtime)
    ELSE IF Timestamp(meta).raises
         THEN FileResult("fault", "AttributeError", NoLocation, 0, NoMtime)
    ELSE IF Timestamp(meta).ts = ""
         THEN FileResult("skipped", "no timestamp", NoLocation, 0, NoMtime)
    ELSE IF ~IsNumeral(Timestamp(meta).ts)
         THEN FileResult("fault", "ValueError", NoLocation, 0, NoMtime)
    ELSE Embed(name, IntOf(Timestamp(meta).ts),
               Location(name, IntOf(Timestamp(meta).ts)), returncode)

(***************************************************************************)
(* GooglePhotosValidator._get_expected_output_path.                        *)
(***************************************************************************)
\* the loop over photoTakenTime and creationTime: the first of the fields in
\* the record whose timestamp is truthy; "raises" is the AttributeError of
\* .get on a time field that is no dict
ExpectedTimestamp(metadata) ==
    IF metadata.photoTakenTime.obj = "scalar"
    THEN [raises |-> TRUE, ts |-> "", field |-> ""]
    ELSE IF metadata.photoTakenTime.obj = "object" /\ metadata.photoTakenTime.timestamp # ""
         THEN [raises |-> FALSE, ts |-> metadata.photoTakenTime.timestamp,
               field |-> "photoTakenTime"]
    ELSE IF metadata.creationTime.obj = "scalar"
         THEN [raises |-> TRUE, ts |-> "", field |-> ""]
    ELSE IF metadata.creationTime.obj = "object" /\ metadata.creationTime.timestamp # ""
         THEN [raises |-> FALSE, ts |-> metadata.creationTime.timestamp,
               field |-> "creationTime"]
    ELSE [raises |-> FALSE, ts |-> "", field |-> ""]

\* the try block: output_path / str(year) / f"{month:02d}" / media_file.name of
\* the Pacific instant, None (NoLocation) when int(timestamp) raises
ExpectedPathOf(name, timestamp) ==
    IF ~IsNumeral(timestamp) THEN NoLocation
    ELSE LET ym == PacificYearMonth(IntOf(timestamp))
         IN  <<ToString(ym[1]), Pad2(ym[2]), name>>

\* the whole method: [fault, path]; a well-formed sidecar that is a list has
\* no time field "in" it and yields None
GetExpectedOutputPath(media_name, json_files) ==
    LET m == FindJsonForMedia(media_name, json_files)
    IN  IF m.fault THEN [fault |-> TRUE, path |-> NoLocation]
        ELSE IF m.j = 0 THEN [fault |-> FALSE, path |-> NoLocation]
        ELSE LET metadata == json_files[m.j].body
             IN  IF ~Truthy(metadata) \/ metadata.kind = "scalar"
                 THEN [fault |-> FALSE, path |-> NoLocation]
                 ELSE IF ExpectedTimestamp(metadata).raises
                 THEN [fault |-> TRUE, path |-> NoLocation]
                 ELSE [fault |-> FALSE,
                       path |-> ExpectedPathOf(media_name, ExpectedTimestamp(metadata).ts)]

(***************************************************************************)
(* State.                                                                  *)
(*   r_*: one resolver query and the answers given to it.                  *)
(*   input_media, input_json, exiftool_found: the input tree (the files of *)
(*     the "Photos from YYYY" folders, in the order a directory walk       *)
(*     yields them) and whether shutil.which finds the Metadata Writer.    *)
(*   pc, yi, media_files, json_files, mi, ret: where run() is.             *)
(*   skipped .. folder_rule_counts: the fields of GooglePhotosProcessor.   *)
(*   out_dirs, archive: the directories and files under out_base.          *)
(*   written: the list files run() has written, by name.                   *)
(*   log: for every media file handled so far in this run, what was done   *)
(*     with it; summaries: the YEAR SUMMARY lines of this run.             *)
(*   skipped_files_folder: the --skipped_files folder of this run and the  *)
(*     list files in it.                                                   *)
(*   runs, first: how often the program was started on this tree, and what *)
(*     its first run left.                                                 *)
(*   output_tree: the output folder the auditor is pointed at.             *)
(*   v_pc .. v_ret: where GooglePhotosValidator.validate() is; result: its *)
(*     ValidationResult; v_year: the locals of _validate_year_folder;      *)
(*     v_written: the files it has written; v_summaries: the YEAR SUMMARY  *)
(*     blocks it has printed; v_log: what it found for every media file;   *)
(*     orphan_json: the copies under base_path/orphan_json.                *)
(*   b_meta, b_cmd: a sidecar's content handed to _build_cmd and what      *)
(*     _build_cmd returned for it.                                         *)
(***************************************************************************)
VARIABLES r_media, r_json, r_match, r_perm, r_permuted, r_find,
          input_media, input_json, exiftool_found,
          pc, yi, media_files, json_files, mi, ret,
          skipped, copied_only_files, processed, copied_only,
          folder_processed, folder_copied_only, folder_skipped, folder_rule_counts,
          out_dirs, archive, written, log, summaries,
          skipped_files_folder, runs, first,
          output_tree, v_pc, v_yi, v_mi, v_media_files, v_json_files, v_ret,
          result, v_year, v_written, v_summaries, v_log, orphan_json,
          b_meta, b_cmd

rvars == <<r_media, r_json, r_match, r_perm, r_permuted, r_find>>
inputs == <<input_media, input_json, exiftool_found>>
fields == <<skipped, copied_only_files, processed, copied_only,
            folder_processed, folder_copied_only, folder_skipped, folder_rule_counts>>
\* the command line of a run and the runs before it
cli == <<skipped_files_folder, runs, first>>
pvars == <<inputs, pc, yi, media_files, json_files, mi, ret,
           fields, out_dirs, archive, written, log, summaries, cli>>
avars == <<output_tree, v_pc, v_yi, v_mi, v_media_files, v_json_files, v_ret,
           result, v_year, v_written, v_summaries, v_log, orphan_json>>
bvars == <<b_meta, b_cmd>>
vars == <<rvars, pvars, avars, bvars>>

\* a resolver that has not been called yet
NotCalled == MatchResult(-1, 0, 0, FALSE)

(***************************************************************************)
(* The resolver's inputs: media names and sidecars that exercise every     *)
(* rule, with two candidates for the same rule where the names allow it    *)
(* (rglob walks the subfolders, so two sidecars may bear the same name).   *)
(***************************************************************************)
MaxCand == 2

\* 45 characters: the part of a long name that rule 2 compares
LongPrefix == "IMG_20200101_120000_holiday_panorama_stitch_0"

R_MediaNames ==
    {"a.jpg", LongPrefix \o "1.jpg", "a(1).jpg", "a-edited.jpg",
     "v.mp4", "v(1).mp4", "p.png", "c.avi"}

\* a sidecar of the folder being resolved; dir is its subfolder ("": none)
Sidecar(dir, name, body) == [dir |-> dir, name |-> name, body |-> body]

R_Sidecars ==
    {Sidecar("", "a.jpg.json", Object("a.jpg", NoTime, NoTime)),
     Sidecar("album", "a.jpg.json", Object("a.jpg", NoTime, NoTime)),
     Sidecar("", "a.jpg.supplemental-metadata.json", Object("a.jpg", NoTime, NoTime)),
     Sidecar("", LongPrefix \o "1.json", Object(LongPrefix \o "1.jpg", NoTime, NoTime)),
     Sidecar("", LongPrefix \o "2.json", Object(LongPrefix \o "2.jpg", NoTime, NoTime)),
     Sidecar("", "a.jpg(1).json", Object("a(1).jpg", NoTime, NoTime)),
     Sidecar("", "v.JPG.json", Object("v.JPG", NoTime, NoTime)),
     Sidecar("", "v.HEIC.json", Object("v.HEIC", NoTime, NoTime)),
     Sidecar("", "p.json", Object("p.png", NoTime, NoTime)),
     Sidecar("", "y.json", Object("a.jpg", NoTime, NoTime)),
     Sidecar("", "z.json", Object("a.jpg", NoTime, NoTime)),
     Sidecar("", "m.json", Malformed),
     Sidecar("", "n.json", Scalar),
     Sidecar("", "e.json", Falsy)}

\* the sequences of at most n distinct elements of S: the orders in which a
\* directory walk can enumerate at most n of the files of S
RECURSIVE DistinctSeqs(_, _)
DistinctSeqs(S, n) ==
    IF n = 0 THEN {<<>>}
    ELSE LET shorter == DistinctSeqs(S, n - 1)
             longest == {t \in shorter : Len(t) = n - 1}
         IN  shorter \cup
             {Append(qx[1], qx[2]) :
                qx \in {c \in longest \X S :
                          \A i \in 1..Len(c[1]) : c[1][i] # c[2]}}

\* the permutations of 1..n
Perms(n) == {f \in [1..n -> 1..n] : \A i, k \in 1..n : f[i] = f[k] => i = k}
Permuted(q, f) == [i \in 1..Len(q) |-> q[f[i]]]

(***************************************************************************)
(* The pipeline's inputs: at most MaxMedia media files and MaxJson         *)
(* sidecars, spread over the year folders.                                 *)
(***************************************************************************)
MaxMedia == 2
MaxJson == 2

\* the "Photos from YYYY" folders of the input, as _year_folders yields them
YearFolders == <<2020, 2021>>

\* 2021-01-01T00:00:00Z and 2021-02-01T00:00:00Z
P_Bodies ==
    {Object("a.jpg", Time("1609459200"), Time("1612137600")),
     Object("c.avi", NoTime, Time("1612137600")),
     Object("a.jpg", NoTime, NoTime),
     Object("a.jpg", Time("abc"), NoTime),
     Object("c.avi", ScalarTime, NoTime),
     Malformed,
     Scalar}

Range(q) == {q[i] : i \in 1..Len(q)}

\* a file of a year folder; dir is the folder below the year folder that
\* rglob found it in, "" for the year folder itself
MediaFile(year, name) == [year |-> year, dir |-> "", name |-> name]
SidecarFile(year, name, body) == [year |-> year, dir |-> "", name |-> name, body |-> body]

\* the media files and the sidecars of the universe, among them a live
\* photo: the video of a still whose sidecar is the only one
P_Media ==
    {MediaFile(y, n) : y \in Range(YearFolders), n \in {"a.jpg", "c.avi"}}
        \cup {MediaFile(2020, "v.mp4")}
P_Json ==
    {SidecarFile(y, n, b) : y \in Range(YearFolders),
                            n \in {"a.jpg.json", "c.avi.json", "z.json"}, b \in P_Bodies}
        \cup {SidecarFile(2020, "v.JPG.json", Object("v.JPG", Time("1609459200"), NoTime)),
              SidecarFile(2020, "v.heic.json", Object("v.HEIC", Time("1612137600"), NoTime))}

\* one path holds one file
DistinctPaths(q) ==
    \A i, k \in 1..Len(q) :
        (q[i].year = q[k].year /\ q[i].dir = q[k].dir /\ q[i].name = q[k].name) => i = k

NoSidecar == SidecarFile(0, "", Malformed)

\* no --skipped_files argument
NoFolder == [given |-> FALSE, files |-> {}]
\* no run before this one
NoRun == [ran |-> FALSE]

\* str(media): the path of a media file as the lists record it
StrPath(media) ==
    "Photos from " \o ToString(media.year) \o "/"
        \o (IF media.dir = "" THEN "" ELSE media.dir \o "/") \o media.name

\* line.strip(): the blanks at both ends removed
RECURSIVE Strip(_)
Strip(line) ==
    IF line = "" THEN ""
    ELSE IF CharAt(line, 1) = " " THEN Strip(SubSeq(line, 2, Len(line)))
    ELSE IF CharAt(line, Len(line)) = " " THEN Strip(DropLast(line, 1))
    ELSE line

\* Path(p).name: what follows the last "/"
RECURSIVE PathName(_)
PathName(path) ==
    IF path = "" THEN ""
    ELSE IF CharAt(path, Len(path)) = "/" THEN ""
    ELSE PathName(DropLast(path, 1)) \o CharAt(path, Len(path))

\* a GooglePhotosProcessor as __init__ leaves it, run() not yet called
P_Constructed ==
    /\ pc = "idle"
    /\ yi = 0 /\ media_files = <<>> /\ json_files = <<>> /\ mi = 0 /\ ret = -1
    /\ skipped = <<>> /\ copied_only_files = <<>>
    /\ processed = 0 /\ copied_only = 0
    /\ folder_processed = 0 /\ folder_copied_only = 0 /\ folder_skipped = 0
    /\ folder_rule_counts = [k \in 1..8 |-> 0]
    /\ log = <<>> /\ summaries = <<>>

\* the first start of the program on a fresh tree, with no --skipped_files
P_Idle ==
    /\ P_Constructed
    /\ out_dirs = {} /\ archive = {} /\ written = {}
    /\ skipped_files_folder = NoFolder /\ runs = 1 /\ first = NoRun

\* a ValidationResult as its __init__ leaves it
NewResult ==
    [total_input_files |-> 0, found_in_output |-> 0, content_matches |-> 0,
     content_mismatches |-> 0, missing_files |-> <<>>, mismatch_files |-> <<>>,
     errors |-> <<>>]

\* the locals of _validate_year_folder before the folder is looked at
NewYear == [consumed_jsons |-> {}, mismatched_files |-> <<>>, invalid_date_files |-> <<>>]

NoTree == [exists |-> FALSE, files |-> {}]

\* a GooglePhotosValidator as __init__ leaves it, validate() not yet called
V_Constructed ==
    /\ v_pc = "idle" /\ v_yi = 0 /\ v_mi = 0 /\ v_ret = "none"
    /\ v_media_files = <<>> /\ v_json_files = <<>>
    /\ result = NewResult /\ v_year = NewYear
    /\ v_written = {} /\ v_summaries = <<>> /\ v_log = <<>> /\ orphan_json = {}

\* no auditor at work
V_Idle == V_Constructed /\ output_tree = NoTree

\* _build_cmd not called
NotBuilt == [raises |-> FALSE, cmd |-> <<>>]
B_Idle == b_meta = Object("", NoTime, NoTime) /\ b_cmd = NotBuilt

R_Idle ==
    /\ r_media = "" /\ r_json = <<>> /\ r_permuted = <<>>
    /\ r_match = NotCalled /\ r_perm = NotCalled /\ r_find = NotCalled

R_Init ==
    /\ r_media \in R_MediaNames
    /\ r_json \in DistinctSeqs(R_Sidecars, MaxCand)
    /\ r_match = NotCalled
    /\ r_perm = NotCalled
    /\ r_permuted = <<>>
    /\ r_find = NotCalled
    /\ input_media = <<>> /\ input_json = <<>> /\ exiftool_found = TRUE
    /\ P_Idle
    /\ V_Idle
    /\ B_Idle

\* the variables of the pipeline that _match_json leaves alone
rest == <<inputs, pc, yi, media_files, json_files, mi, ret,
          skipped, copied_only_files, processed, copied_only,
          folder_processed, folder_copied_only, folder_skipped,
          out_dirs, archive, written, log, summaries, cli, avars, bvars>>

\* the pipeline's resolver answers the query
R_MatchJson ==
    /\ r_match = NotCalled
    /\ r_match' = MatchJson(r_media, r_json)
    /\ folder_rule_counts' = CountRule(folder_rule_counts, MatchJson(r_media, r_json))
    /\ UNCHANGED <<r_media, r_json, r_perm, r_permuted, r_find, rest>>

\* the pipeline's resolver answers the same query with the candidates
\* enumerated in another order
R_MatchJsonPermuted ==
    /\ r_perm = NotCalled
    /\ \E f \in Perms(Len(r_json)) :
        /\ r_permuted' = Permuted(r_json, f)
        /\ r_perm' = MatchJson(r_media, Permuted(r_json, f))
        /\ folder_rule_counts' =
              CountRule(folder_rule_counts, MatchJson(r_media, Permuted(r_json, f)))
    /\ UNCHANGED <<r_media, r_json, r_match, r_find, rest>>

\* the auditor's resolver answers the query
R_FindJsonForMedia ==
    /\ r_find = NotCalled
    /\ r_find' = FindJsonForMedia(r_media, r_json)
    /\ UNCHANGED <<r_media, r_json, r_match, r_perm, r_permuted, pvars, avars, bvars>>

R_Next == R_MatchJson \/ R_MatchJsonPermuted \/ R_FindJsonForMedia

SpecResolve == R_Init /\ [][R_Next]_vars

(***************************************************************************)
(* GooglePhotosProcessor.run, _process_folder and the loop body of         *)
(* _process_folder (_match_json, then _process_file or the skip).          *)
(***************************************************************************)
Init ==
    /\ R_Idle
    /\ input_media \in {q \in DistinctSeqs(P_Media, MaxMedia) : DistinctPaths(q)}
    /\ input_json \in {q \in DistinctSeqs(P_Json, MaxJson) : DistinctPaths(q)}
    /\ exiftool_found \in BOOLEAN
    /\ P_Idle
    /\ V_Idle
    /\ B_Idle

\* run() without the test for the Metadata Writer
Run_WithoutExifTool ==
    /\ pc = "idle"
    /\ ~exiftool_found
    /\ out_dirs' = out_dirs \cup {<<>>}
    /\ yi' = 1
    /\ pc' = "year"
    /\ UNCHANGED <<rvars, avars, bvars, inputs, media_files, json_files, mi, ret, fields,
                   archive, written, log, summaries, cli>>

\* run(): shutil.which("exiftool") is None -> return 1
Run_NoExifTool ==
    /\ pc = "idle"
    /\ ~exiftool_found
    /\ pc' = "done"
    /\ ret' = 1
    /\ UNCHANGED <<rvars, avars, bvars, inputs, yi, media_files, json_files, mi, fields,
                   out_dirs, archive, written, log, summaries, cli>>

\* run(): the Metadata Writer is there; self.out_base.mkdir(parents=True, exist_ok=True)
Run_Start ==
    /\ pc = "idle"
    /\ exiftool_found
    /\ out_dirs' = out_dirs \cup {<<>>}
    /\ yi' = 1
    /\ pc' = "year"
    /\ UNCHANGED <<rvars, avars, bvars, inputs, media_files, json_files, mi, ret, fields,
                   archive, written, log, summaries, cli>>

\* process_files_set = set(Path(line.strip()).name for line in f if line.strip())
ProcessFilesSet(lines) ==
    {PathName(Strip(lines[i])) : i \in {k \in 1..Len(lines) : Strip(lines[k]) # ""}}

\* every media file of the folder kept, whatever the list names
RetryFilterOff(files, process_files_set) == files

\* media_files = [p for p in media_files if p.name in process_files_set]
RetryFilter(files, process_files_set) ==
    SelectSeq(files, LAMBDA p : p.name \in process_files_set)

\* the files of the --skipped_files folder named <year>_skipped_files.txt
RetryLists(year) ==
    {f \in skipped_files_folder.files : f.name = <<year, "skipped_files.txt">>}

\* one turn of "for yf in self._year_folders()" up to the loop of
\* _process_folder: with --skipped_files a folder whose list is missing is
\* passed over; otherwise the lists are cleared and the folder is enumerated,
\* its media files filtered by the names of the list
Run_Year ==
    /\ pc = "year"
    /\ yi <= Len(YearFolders)
    /\ IF skipped_files_folder.given /\ RetryLists(YearFolders[yi]) = {}
       THEN /\ yi' = yi + 1
            /\ pc' = "year"
            /\ UNCHANGED <<skipped, copied_only_files, folder_processed,
                           folder_copied_only, folder_skipped, folder_rule_counts,
                           json_files, media_files, mi>>
       ELSE /\ skipped' = <<>>
            /\ copied_only_files' = <<>>
            /\ folder_processed' = 0
            /\ folder_copied_only' = 0
            /\ folder_skipped' = 0
            /\ folder_rule_counts' = [k \in 1..8 |-> 0]
            /\ json_files' =
                  SelectSeq(input_json,
                            LAMBDA j : j.year = YearFolders[yi] /\ EndsWith(j.name, ".json"))
            /\ media_files' =
                  LET all == SelectSeq(input_media,
                                       LAMBDA m : /\ m.year = YearFolders[yi]
                                                  /\ SuffixIn(m.name, MEDIA_EXTS))
                  IN  IF ~skipped_files_folder.given THEN all
                      ELSE RetryFilter(all,
                             ProcessFilesSet(
                               (CHOOSE f \in RetryLists(YearFolders[yi]) : TRUE).lines))
            /\ mi' = 1
            /\ pc' = "file"
            /\ yi' = yi
    /\ UNCHANGED <<rvars, avars, bvars, inputs, ret, processed, copied_only,
                   out_dirs, archive, written, log, summaries, cli>>

\* what the loop body did with one media file; outcome "fault" stands for an
\* exception that left the loop (raised_in names the method), returncode is
\* the Metadata Writer's exit status, -1 when it was not run
LogEntry(media, sidecar, m, r, returncode) ==
    [media |-> media, sidecar |-> sidecar, rule |-> m.rule, loads |-> m.loads,
     outcome |-> r.outcome, reason |-> r.reason,
     raised_in |-> IF m.fault THEN "_match_json"
                   ELSE IF r.outcome = "fault" THEN "_process_file" ELSE "",
     location |-> r.location, exiftool_runs |-> r.exiftool_runs,
     returncode |-> IF r.exiftool_runs > 0 THEN returncode ELSE -1,
     date_str |-> IF r.exiftool_runs > 0 THEN BuildCmdDate(sidecar.body).date_str ELSE "",
     cmd |-> IF r.exiftool_runs > 0
             THEN BuildCmd(sidecar.body,
                           r.location[1] \o "/" \o r.location[2] \o "/" \o r.location[3]).cmd
             ELSE <<>>]

\* target_dir.mkdir(parents=True, exist_ok=True)
Mkdir(dirs, location) ==
    dirs \cup {<<>>, <<location[1]>>, <<location[1], location[2]>>}

\* shutil.copy2(media, target), then what the Metadata Writer or os.utime
\* leaves as the copy's modification time
Copy(files, media, r) ==
    {f \in files : f.location # r.location}
        \cup {[location |-> r.location, source |-> media, mtime |-> r.mtime]}

\* _match_json on one media file, then _process_file on the match or the
\* skip for want of one
Handle(name, candidates, returncode) ==
    LET m == MatchJson(name, candidates)
    IN  [m |-> m,
         r |-> IF m.fault
               THEN FileResult("fault", "AttributeError", NoLocation, 0, NoMtime)
               ELSE IF m.j = 0
               THEN FileResult("skipped", "no or multi JSON", NoLocation, 0, NoMtime)
               ELSE ProcessFile(name, candidates[m.j].body, returncode)]

\* one turn of "for media in media_files"
\* a counter raised whatever the Outcome of the file
BumpAlways(n, hit) == n + 1

\* "+= 1" on the branch of the Outcome the counter stands for
Bump(n, hit) == IF hit THEN n + 1 ELSE n

ProcessMedia ==
    /\ pc = "file"
    /\ mi <= Len(media_files)
    /\ \E returncode \in {0, 1} :
        \E h \in {Handle(media_files[mi].name, json_files, returncode)} :
        LET media   == media_files[mi]
            m       == h.m
            r       == h.r
            sidecar == IF m.j = 0 THEN NoSidecar ELSE json_files[m.j]
        IN  /\ pc' = IF r.outcome = "fault" THEN "fault" ELSE "file"
            /\ mi' = IF r.outcome = "fault" THEN mi ELSE mi + 1
            /\ folder_rule_counts' = CountRule(folder_rule_counts, m)
            /\ skipped' =
                  IF r.outcome = "skipped" THEN Append(skipped, StrPath(media)) ELSE skipped
            /\ folder_skipped' = Bump(folder_skipped, r.outcome = "skipped")
            /\ copied_only_files' =
                  IF r.outcome = "copied_only"
                  THEN Append(copied_only_files, StrPath(media)) ELSE copied_only_files
            /\ copied_only' = Bump(copied_only, r.outcome = "copied_only")
            /\ folder_copied_only' = Bump(folder_copied_only, r.outcome = "copied_only")
            /\ processed' = Bump(processed, r.outcome = "metadata_embedded")
            /\ folder_processed' = Bump(folder_processed, r.outcome = "metadata_embedded")
            /\ out_dirs' =
                  IF r.location = NoLocation THEN out_dirs
                  ELSE Mkdir(out_dirs, r.location)
            /\ archive' =
                  IF r.location = NoLocation THEN archive
                  ELSE Copy(archive, media, r)
            /\ log' = Append(log, LogEntry(media, sidecar, m, r, returncode))
    /\ UNCHANGED <<rvars, avars, bvars, inputs, yi, media_files, json_files, ret, written,
                   summaries, cli>>

\* path.write_text(...): the file is created or replaced
WriteText(files, name, lines) ==
    {f \in files : f.name # name} \cup {[name |-> name, lines |-> lines]}

\* the lines of a YEAR SUMMARY
Summary(year) ==
    [year |-> year, processed |-> folder_processed, copied_only |-> folder_copied_only,
     skipped |-> folder_skipped, rule_counts |-> folder_rule_counts]

\* run() after _process_folder returns: the folder's lists are written, each
\* only when it is not empty, and the summary of the year is logged
Run_YearDone ==
    /\ pc = "file"
    /\ mi > Len(media_files)
    /\ written' =
         LET year == YearFolders[yi]
             w1 == IF skipped # <<>>
                   THEN WriteText(written, <<year, "skipped_files.txt">>, skipped)
                   ELSE written
         IN  IF copied_only_files # <<>>
             THEN WriteText(w1, <<year, "copied_only.txt">>, copied_only_files)
             ELSE w1
    /\ summaries' = Append(summaries, Summary(YearFolders[yi]))
    /\ yi' = yi + 1
    /\ pc' = "year"
    /\ UNCHANGED <<rvars, avars, bvars, inputs, media_files, json_files, mi, ret, fields,
                   out_dirs, archive, log, cli>>

\* run() after the last year folder: return 0
Run_Done ==
    /\ pc = "year"
    /\ yi > Len(YearFolders)
    /\ ret' = 0
    /\ pc' = "done"
    /\ UNCHANGED <<rvars, avars, bvars, inputs, yi, media_files, json_files, mi, fields,
                   out_dirs, archive, written, log, summaries, cli>>

Next ==
    \/ Run_NoExifTool
    \/ Run_Start
    \/ Run_Year
    \/ ProcessMedia
    \/ Run_YearDone
    \/ Run_Done

Spec == Init /\ [][Next]_vars

(***************************************************************************)
(* The program started again on the same tree (main: a new                 *)
(* GooglePhotosProcessor, with or without --skipped_files); the archive    *)
(* and the list files of the earlier run are still there.                  *)
(***************************************************************************)
MaxRuns == 2

ListFile(year, lines) == [name |-> <<year, "skipped_files.txt">>, lines |-> lines]

\* what --skipped_files may point at: nothing given, an empty folder, a list
\* for 2020 alone, and lists for both years (one naming a file through a path
\* in another folder, with blanks and an empty line; one with no line)
RetryFolders ==
    {NoFolder,
     [given |-> TRUE, files |-> {}],
     [given |-> TRUE, files |-> {ListFile(2020, <<"Photos from 2020/a.jpg">>)}],
     [given |-> TRUE,
      files |-> {ListFile(2020, <<" Photos from 2021/c.avi ", "">>),
                 ListFile(2021, <<>>)}]}

Q_Media == {MediaFile(2020, "a.jpg"), MediaFile(2020, "c.avi"), MediaFile(2021, "a.jpg")}
Q_Json ==
    {SidecarFile(2020, "a.jpg.json", Object("a.jpg", Time("1609459200"), NoTime)),
     SidecarFile(2020, "a.jpg.json", Object("a.jpg", NoTime, NoTime)),
     SidecarFile(2020, "c.avi.json", Object("c.avi", Time("1612137600"), NoTime)),
     SidecarFile(2021, "a.jpg.json", Object("a.jpg", Time("1609459200"), NoTime))}

InitRetry ==
    /\ R_Idle
    /\ input_media \in {q \in DistinctSeqs(Q_Media, MaxMedia) : DistinctPaths(q)}
    /\ input_json \in {q \in DistinctSeqs(Q_Json, MaxJson) : DistinctPaths(q)}
    /\ exiftool_found \in BOOLEAN
    /\ P_Constructed
    /\ out_dirs = {} /\ archive = {} /\ written = {}
    /\ skipped_files_folder \in RetryFolders
    /\ runs = 1 /\ first = NoRun
    /\ V_Idle
    /\ B_Idle

\* what a finished run leaves behind for comparison
RunRecord ==
    [ran |-> TRUE, given |-> skipped_files_folder.given,
     processed |-> processed, copied_only |-> copied_only,
     summaries |-> summaries, log |-> log,
     paths |-> {f.location : f \in archive}]

\* run() called again on the same GooglePhotosProcessor object
Run_AgainSameObject ==
    /\ pc = "done" /\ ret = 0
    /\ runs < MaxRuns
    /\ runs' = runs + 1
    /\ first' = IF runs = 1 THEN RunRecord ELSE first
    /\ skipped_files_folder' \in RetryFolders
    /\ pc' = "idle" /\ yi' = 0 /\ mi' = 0 /\ ret' = -1
    /\ media_files' = <<>> /\ json_files' = <<>>
    /\ log' = <<>> /\ summaries' = <<>>
    /\ UNCHANGED <<rvars, avars, bvars, inputs, fields, out_dirs, archive, written>>

\* main() again after a run that returned 0: a new object, whose counters
\* start at 0
Run_Again ==
    /\ pc = "done" /\ ret = 0
    /\ runs < MaxRuns
    /\ runs' = runs + 1
    /\ first' = IF runs = 1 THEN RunRecord ELSE first
    /\ skipped_files_folder' \in RetryFolders
    /\ pc' = "idle" /\ yi' = 0 /\ mi' = 0 /\ ret' = -1
    /\ media_files' = <<>> /\ json_files' = <<>>
    /\ skipped' = <<>> /\ copied_only_files' = <<>>
    /\ processed' = 0 /\ copied_only' = 0
    /\ folder_processed' = 0 /\ folder_copied_only' = 0 /\ folder_skipped' = 0
    /\ folder_rule_counts' = [k \in 1..8 |-> 0]
    /\ log' = <<>> /\ summaries' = <<>>
    /\ UNCHANGED <<rvars, avars, bvars, inputs, out_dirs, archive, written>>

NextRetry == Next \/ Run_Again

SpecRetry == InitRetry /\ [][NextRetry]_vars

(***************************************************************************)
(* The auditor: GooglePhotosValidator.validate() on an input tree and an   *)
(* output folder.                                                          *)
(***************************************************************************)
MaxSmaller == 32
MaxLarger == 10240

\* input_file.stat().st_size of the media files of the universe
InputSize(media) == 100

\* what expected_output.exists() and expected_output.stat() see
OutputFileAt(tree, location) ==
    IF \E f \in tree.files : f.location = location
    THEN LET f == CHOOSE g \in tree.files : g.location = location
         IN  [exists |-> TRUE, size |-> f.size, mtime |-> f.mtime]
    ELSE [exists |-> FALSE, size |-> 0, mtime |-> 0]

\* _compare_file_sizes with the upper bound excluded
CompareFileSizesStrict(input_size, output_file) ==
    LET size_diff == output_file.size - input_size
    IN  IF ~output_file.exists
        THEN [is_match |-> FALSE, reason |-> "Output file does not exist", size_diff |-> 0]
        ELSE IF size_diff < -MaxSmaller
        THEN [is_match |-> FALSE, reason |-> "Output smaller than input by more than 32 bytes",
              size_diff |-> size_diff]
        ELSE IF size_diff >= MaxLarger
        THEN [is_match |-> FALSE, reason |-> "Output too much larger than input",
              size_diff |-> size_diff]
        ELSE [is_match |-> TRUE, reason |-> "Size acceptable", size_diff |-> size_diff]

\* _compare_file_sizes: (is_match, reason), the reason with the difference
\* it is formatted from
CompareFileSizes(input_size, output_file) ==
    LET size_diff == output_file.size - input_size
    IN  IF ~output_file.exists
        THEN [is_match |-> FALSE, reason |-> "Output file does not exist", size_diff |-> 0]
        ELSE IF size_diff < -MaxSmaller
        THEN [is_match |-> FALSE, reason |-> "Output smaller than input by more than 32 bytes",
              size_diff |-> size_diff]
        ELSE IF size_diff > MaxLarger
        THEN [is_match |-> FALSE, reason |-> "Output too much larger than input",
              size_diff |-> size_diff]
        ELSE [is_match |-> TRUE, reason |-> "Size acceptable", size_diff |-> size_diff]

\* a set as a list, in the order a directory listing gives
RECURSIVE Listed(_)
Listed(S) ==
    IF S = {} THEN <<>>
    ELSE LET x == CHOOSE y \in S : TRUE IN <<x>> \o Listed(S \ {x})

\* the scan of output/<year>/MM: the media files whose modification time,
\* read in Pacific time, is not of the year of the folder and of the month MM
InvalidDateFiles(tree, year) ==
    Listed({f.location : f \in
        {g \in tree.files :
            /\ g.location[1] = ToString(year)
            /\ SuffixIn(g.location[3], MEDIA_EXTS)
            /\ \/ ToString(PacificYearMonth(g.mtime)[1]) # g.location[1]
               \/ Pad2(PacificYearMonth(g.mtime)[2]) # g.location[2]}})

\* validate(): the output path does not exist, return False
V_NoOutput ==
    /\ v_pc = "idle"
    /\ ~output_tree.exists
    /\ v_ret' = "False"
    /\ v_pc' = "done"
    /\ UNCHANGED <<rvars, pvars, bvars, output_tree, v_yi, v_mi, v_media_files, v_json_files,
                   result, v_year, v_written, v_summaries, v_log,
                   orphan_json>>

\* validate(): the output path exists and there are year folders
V_Start ==
    /\ v_pc = "idle"
    /\ output_tree.exists
    /\ Len(YearFolders) > 0
    /\ v_yi' = 1
    /\ v_pc' = "year"
    /\ UNCHANGED <<rvars, pvars, bvars, output_tree, v_mi, v_media_files, v_json_files, v_ret,
                   result, v_year, v_written, v_summaries, v_log,
                   orphan_json>>

\* _validate_year_folder up to its loop: the folder is enumerated, the total
\* is raised, and the files with an invalid date are listed and written
V_Year ==
    /\ v_pc = "year"
    /\ v_yi <= Len(YearFolders)
    /\ LET year == YearFolders[v_yi]
           media == SelectSeq(input_media,
                              LAMBDA m : m.year = year /\ SuffixIn(m.name, MEDIA_EXTS))
           invalid == InvalidDateFiles(output_tree, year)
       IN  /\ v_media_files' = media
           /\ v_json_files' =
                 SelectSeq(input_json, LAMBDA j : j.year = year /\ EndsWith(j.name, ".json"))
           /\ result' = [result EXCEPT
                           !.total_input_files = result.total_input_files + Len(media)]
           /\ v_year' = [NewYear EXCEPT !.invalid_date_files = invalid]
           /\ v_written' =
                 IF invalid # <<>>
                 THEN WriteText(v_written, <<year, "validation_result_invalid_date.txt">>,
                                invalid)
                 ELSE v_written
    /\ v_mi' = 1
    /\ v_pc' = "file"
    /\ UNCHANGED <<rvars, pvars, bvars, output_tree, v_yi, v_ret, v_summaries, v_log,
                   orphan_json>>

\* one turn of "for media_file in media_files"; v_log notes what it finds
V_Media ==
    /\ v_pc = "file"
    /\ v_mi <= Len(v_media_files)
    /\ LET media == v_media_files[v_mi]
       IN  \E m \in {FindJsonForMedia(media.name, v_json_files)} :
           \E e \in {GetExpectedOutputPath(media.name, v_json_files)} :
           \E output_file \in {OutputFileAt(output_tree, e.path)} :
           \E cmp \in {CompareFileSizes(InputSize(media), output_file)} :
             IF m.fault \/ e.fault
             THEN /\ v_pc' = "fault"
                  /\ v_ret' = "raised"
                  /\ UNCHANGED <<v_mi, result, v_year, v_log>>
             ELSE /\ v_pc' = "file"
                  /\ v_mi' = v_mi + 1
                  /\ v_ret' = v_ret
                  /\ v_log' = Append(v_log,
                        [media |-> media,
                         sidecar |-> IF m.j = 0 THEN NoSidecar ELSE v_json_files[m.j],
                         expected |-> e.path, exists |-> output_file.exists,
                         input_size |-> InputSize(media), output_size |-> output_file.size,
                         is_match |-> cmp.is_match, reason |-> cmp.reason])
                  /\ v_year' =
                        [v_year EXCEPT
                           !.consumed_jsons =
                               IF m.j = 0 THEN @ ELSE @ \cup {v_json_files[m.j]},
                           !.mismatched_files =
                               IF e.path # NoLocation /\ output_file.exists /\ ~cmp.is_match
                               THEN Append(@, [input |-> StrPath(media), output |-> e.path,
                                               reason |-> cmp.reason])
                               ELSE @]
                  /\ result' =
                        IF e.path = NoLocation
                        THEN [result EXCEPT !.errors = Append(@, StrPath(media))]
                        ELSE IF ~output_file.exists
                        THEN [result EXCEPT !.missing_files = Append(@, StrPath(media))]
                        ELSE IF cmp.is_match
                        THEN [result EXCEPT !.found_in_output = @ + 1,
                                            !.content_matches = @ + 1]
                        ELSE [result EXCEPT !.found_in_output = @ + 1,
                                            !.content_mismatches = @ + 1,
                                            !.mismatch_files =
                                                Append(@, [input |-> StrPath(media),
                                                           output |-> e.path,
                                                           reason |-> cmp.reason])]
    /\ UNCHANGED <<rvars, pvars, bvars, output_tree, v_yi, v_media_files, v_json_files,
                   v_written, v_summaries,
                   orphan_json>>

\* [m for m in media_files if not self._get_expected_output_path(m, json_files)]
NotPresent(files, candidates) ==
    SelectSeq(files, LAMBDA m : GetExpectedOutputPath(m.name, candidates).path = NoLocation)

\* _validate_year_folder after its loop: the orphans are found, the lists of
\* the year are written, each only when it is not empty, the orphans are
\* copied to orphan_json/Photos from <year>/<name of the orphan>, one after
\* the other, and the summary is printed.  The list of the urls has the url
\* of every orphan that loads as a dict with a true url; an orphan that
\* loads as another true value has no .get, which the code passes over.
V_YearDone ==
    /\ v_pc = "file"
    /\ v_mi > Len(v_media_files)
    /\ \E missing \in {NotPresent(v_media_files, v_json_files)} :
       LET year == YearFolders[v_yi]
           orphan_jsons == SelectSeq(v_json_files, LAMBDA j : j \notin v_year.consumed_jsons)
           w1 == IF v_year.invalid_date_files # <<>>
                 THEN WriteText(v_written, <<year, "validation_result_invalid_date.txt">>,
                                v_year.invalid_date_files)
                 ELSE v_written
           w2 == IF missing # <<>>
                 THEN WriteText(w1, <<year, "validation_result_not_present.txt">>,
                                [i \in 1..Len(missing) |-> StrPath(missing[i])])
                 ELSE w1
           w3 == IF v_year.mismatched_files # <<>>
                 THEN WriteText(w2, <<year, "validation_result_size_mismatch.txt">>,
                                v_year.mismatched_files)
                 ELSE w2
           w4 == IF orphan_jsons # <<>>
                 THEN WriteText(w3, <<year, "validation_result_orphan_json.txt">>,
                                [i \in 1..Len(orphan_jsons) |-> StrPath(orphan_jsons[i])])
                 ELSE w3
           with_url == SelectSeq(orphan_jsons,
                                 LAMBDA j : j.body.kind = "object" /\ j.body.url # "")
           w5 == IF orphan_jsons # <<>>
                 THEN WriteText(w4, <<year, "validation_result_orphan_json_url.txt">>,
                                [i \in 1..Len(with_url) |-> with_url[i].body.url])
                 ELSE w4
           copied == {k \in 1..Len(orphan_jsons) :
                         \A l \in (k + 1)..Len(orphan_jsons) :
                             orphan_jsons[l].name # orphan_jsons[k].name}
       IN  /\ v_written' = w5
           /\ orphan_json' =
                 {c \in orphan_json :
                     ~(c.scope = year /\ \E k \in copied : orphan_jsons[k].name = c.name)}
                 \cup {[scope |-> year, name |-> orphan_jsons[k].name,
                        body |-> orphan_jsons[k].body] : k \in copied}
           /\ v_summaries' = Append(v_summaries,
                 [year |-> year, total |-> Len(v_media_files),
                  not_present |-> Len(missing),
                  size_mismatch |-> Len(v_year.mismatched_files),
                  date_invalid |-> Len(v_year.invalid_date_files),
                  orphans |-> Len(orphan_jsons)])
    /\ v_yi' = v_yi + 1
    /\ v_pc' = "year"
    /\ UNCHANGED <<rvars, pvars, bvars, output_tree, v_mi, v_media_files, v_json_files, v_ret,
                   result, v_year, v_log>>

\* validate() after the last year folder: _save_mismatch_files, return True
V_Done ==
    /\ v_pc = "year"
    /\ v_yi > Len(YearFolders)
    /\ v_written' =
          IF result.mismatch_files # <<>>
          THEN WriteText(v_written, <<"content_mismatches">>, result.mismatch_files)
          ELSE v_written
    /\ v_ret' = "True"
    /\ v_pc' = "done"
    /\ UNCHANGED <<rvars, pvars, bvars, output_tree, v_yi, v_mi, v_media_files, v_json_files,
                   result, v_year, v_summaries, v_log,
                   orphan_json>>

NextAudit == V_NoOutput \/ V_Start \/ V_Year \/ V_Media \/ V_YearDone \/ V_Done

\* the output folders: none, or one with at most one file at each of
\* 2020/12/a.jpg, 2021/01/c.avi and 2019/12/a.jpg; the files at the first
\* are of the sizes at and next to the two ends of the band around InputSize,
\* and one of them has a date of another month; the file at the last, in a
\* year that has no 'Photos from' folder, has a date of its month or of
\* another
A_Trees ==
    {NoTree} \cup
    {[exists |-> TRUE, files |-> a \cup b \cup c] :
        a \in {{}} \cup
              {{[location |-> <<"2020", "12", "a.jpg">>, size |-> s, mtime |-> 1609459200]} :
                  s \in {67, 68, 100, 10340, 10341}} \cup
              {{[location |-> <<"2020", "12", "a.jpg">>, size |-> 100, mtime |-> 1612137600]}},
        b \in {{}} \cup
              {{[location |-> <<"2019", "12", "a.jpg">>, size |-> 100, mtime |-> t]} :
                  t \in {1577000000, 1609459200}},
        c \in {{}} \cup
              {{[location |-> <<"2021", "01", "c.avi">>, size |-> s, mtime |-> 1612137600]} :
                  s \in {100, 10341}}}

\* the sidecars of the audits: those of the runs, one with a time that is no
\* dict, and three that belong to no media file of the universe, two of them
\* of one name, in the year folder and in a folder below it, with a url each
A_Json ==
    Q_Json \cup {SidecarFile(2020, "c.avi.json", Object("c.avi", ScalarTime, NoTime)),
                 [SidecarFile(2021, "x.json", Object("x.jpg", Time("1609459200"), NoTime))
                     EXCEPT !.body.url = "https://photos/x"],
                 [SidecarFile(2021, "x.json", Object("x2.jpg", NoTime, NoTime))
                     EXCEPT !.dir = "sub", !.body.url = "https://photos/x2"],
                 SidecarFile(2021, "l.json", Scalar)}

InitAudit ==
    /\ R_Idle
    /\ input_media \in {q \in DistinctSeqs(Q_Media, MaxMedia) : DistinctPaths(q)}
    /\ input_json \in {q \in DistinctSeqs(A_Json, MaxJson) : DistinctPaths(q)}
    /\ exiftool_found = TRUE
    /\ P_Idle
    /\ V_Constructed
    /\ output_tree \in A_Trees
    /\ B_Idle

SpecAudit == InitAudit /\ [][NextAudit]_vars

(***************************************************************************)
(* The command builder: _build_cmd on the content of one sidecar, with     *)
(* every combination of a missing, a zero and a non-zero latitude,         *)
(* longitude and altitude.                                                 *)
(***************************************************************************)
B_Init ==
    /\ R_Idle
    /\ input_media = <<>> /\ input_json = <<>> /\ exiftool_found = TRUE
    /\ P_Idle
    /\ V_Idle
    /\ b_cmd = NotBuilt
    /\ \E pt \in {NoTime, Time("1609459200")},
          geo \in {NoGeo, [NoGeo EXCEPT !.obj = "scalar"]} \cup
                  {Geo(la, lo, al) : la \in {<<>>, <<0>>, <<37>>},
                                     lo \in {<<>>, <<0>>, <<-122>>},
                                     al \in {<<>>, <<0>>, <<35>>}},
          people \in {<<>>, <<"Ann", "", "Bob">>},
          description \in {"", "d"} :
        b_meta = [Object("a.jpg", pt, NoTime) EXCEPT !.geoData = geo, !.people = people,
                                                      !.description = description]

\* cmd = self._build_cmd(meta, target)
B_BuildCmd ==
    /\ b_cmd = NotBuilt
    /\ b_cmd' = BuildCmd(b_meta, "2020/12/a.jpg")
    /\ UNCHANGED <<rvars, pvars, avars, b_meta>>

SpecCmd == B_Init /\ [][B_BuildCmd]_vars

(***************************************************************************)
(* Properties of the resolver (SpecResolve).                               *)
(***************************************************************************)
\* the candidates that satisfy the pattern of rule k
Hits(k, name, candidates) ==
    {i \in 1..Len(candidates) :
        CASE k = 1 -> Pattern1(name, candidates[i].name)
          [] k = 2 -> Pattern2(name, candidates[i].name)
          [] k = 3 -> Pattern3(name, candidates[i].name)
          [] k = 4 -> Pattern4(name, candidates[i].name)
          [] k = 5 -> Pattern5(name, candidates[i].name)
          [] k = 6 -> Pattern6(name, candidates[i].name)
          [] k = 7 -> Pattern7(name, candidates[i].name)
          [] k = 8 -> Pattern8(name, candidates[i].body)
          [] OTHER -> FALSE}

\* the lowest rule whose pattern exactly one candidate satisfies, with that
\* candidate: <<index, rule>>, <<0, 0>> when there is no such rule
UniqueMatch(name, candidates) ==
    LET ks == {k \in 1..8 : Cardinality(Hits(k, name, candidates)) = 1}
        k0 == CHOOSE k \in ks : \A l \in ks : k <= l
    IN  IF ks = {} THEN <<0, 0>>
        ELSE <<CHOOSE i \in Hits(k0, name, candidates) : TRUE, k0>>

\* C1: ambiguity is a miss. Whenever _match_json answers without raising, its
\* answer is the single candidate of the lowest rule that exactly one
\* candidate satisfies, or no sidecar when there is no such rule; a rule that
\* two or more candidates satisfy returns none of them.
C1_AmbiguityIsMiss ==
    (r_match # NotCalled /\ ~r_match.fault)
        => <<r_match.j, r_match.rule>> = UniqueMatch(r_media, r_json)

\* C3: enumeration-order independence. A match under one of the filename
\* rules 1..7 is the same sidecar under the same rule for every order of the
\* candidate list.
C3_OrderIndependent ==
    (r_match # NotCalled /\ r_perm # NotCalled /\ r_match.rule \in 1..7)
        => /\ r_perm.rule = r_match.rule
           /\ r_perm.j # 0
           /\ r_permuted[r_perm.j] = r_json[r_match.j]

\* C4: the auditor's resolver and the pipeline's resolver return a sidecar for
\* the same queries, and then the same sidecar.
C4_ResolversAgree ==
    (r_match # NotCalled /\ r_find # NotCalled /\ ~r_match.fault /\ ~r_find.fault)
        => r_find.j = r_match.j

\* C2: rule priority. The rule _match_json reports is the lowest rule whose
\* pattern a candidate satisfies, and its counter alone is incremented; a file
\* with a rule-1 candidate is resolved to it under rule 1, also when a
\* sidecar's title equals its name, and no sidecar body is loaded on the way.
C2_RulePriority ==
    [][(r_match' # r_match /\ ~r_match'.fault) =>
        /\ folder_rule_counts' = CountRule(folder_rule_counts, r_match')
        /\ \A k \in 1..8 : folder_rule_counts'[k] # folder_rule_counts[k] => k = r_match'.rule
        /\ IF r_match'.j = 0
           THEN \A k \in 1..8 : Hits(k, r_media, r_json) = {}
           ELSE /\ r_match'.j \in Hits(r_match'.rule, r_media, r_json)
                /\ \A k \in 1..(r_match'.rule - 1) : Hits(k, r_media, r_json) = {}
                /\ folder_rule_counts'[r_match'.rule] = folder_rule_counts[r_match'.rule] + 1
        /\ (Hits(1, r_media, r_json) # {}) =>
              /\ r_match'.rule = 1
              /\ r_match'.j \in Hits(1, r_media, r_json)
              /\ r_match'.loads = 0]_vars

\* a file resolved under rule 1 while another sidecar carries its name as title
C2_Witness ==
    /\ r_match # NotCalled
    /\ r_match.rule = 1
    /\ \E i \in Hits(8, r_media, r_json) : i # r_match.j

(***************************************************************************)
(* Properties of the pipeline (Spec).                                      *)
(***************************************************************************)
Last(q) == q[Len(q)]

\* the media files of the input that the run enumerates
Enumerated == {m \in Range(input_media) : SuffixIn(m.name, MEDIA_EXTS)}

HasOutcome(media) ==
    \E i \in 1..Len(log) : log[i].media = media /\ log[i].outcome # "fault"

\* the timestamp _process_file finds in a sidecar that parses to an object
\* whose time fields are objects or absent
FoundTimestamp(body) ==
    IF body.kind = "object" /\ ~Timestamp(body).raises THEN Timestamp(body).ts ELSE ""

\* a log entry of a file that was matched to a sidecar carrying a numeric timestamp
Placed(e) == e.sidecar # NoSidecar /\ IsNumeral(FoundTimestamp(e.sidecar.body))

\* C5: per-file error isolation. A run that found the Metadata Writer stops
\* only when every enumerated media file has an Outcome, and it returns 0.
C5_ErrorIsolation ==
    (exiftool_found /\ pc \in {"done", "fault"})
        => /\ ret = 0
           /\ \A m \in Enumerated : HasOutcome(m)

\* C6: a matched sidecar that parses but carries no timestamp, or one that is
\* no number, makes the file skipped, with no archive location.
C6_NoTimestampIsSkip ==
    \A i \in 1..Len(log) :
        (/\ log[i].sidecar # NoSidecar
         /\ log[i].sidecar.body.kind = "object"
         /\ ~Timestamp(log[i].sidecar.body).raises
         /\ ~IsNumeral(Timestamp(log[i].sidecar.body).ts))
            => log[i].outcome = "skipped" /\ log[i].location = NoLocation

\* C7: no sidecar content makes the resolver's title inspection or
\* _process_file raise for want of an object.
C7_ExtractionFailsClosed ==
    \A i \in 1..Len(log) : log[i].reason # "AttributeError"

\* C8: a skipped file writes nothing. The step that skips a file leaves the
\* archive, its directories and the input as they were, and a step that adds
\* to the archive handles a file matched to a sidecar with a timestamp.
C8_SkipWritesNothing ==
    [][log' # log =>
        LET e == Last(log')
        IN  /\ e.outcome = "skipped" =>
                  /\ archive' = archive
                  /\ out_dirs' = out_dirs
                  /\ inputs' = inputs
                  /\ e.location = NoLocation
            /\ (archive' # archive \/ out_dirs' # out_dirs) => Placed(e)]_vars

\* a file skipped for want of a timestamp after another file was archived
C8_Witness ==
    /\ archive # {}
    /\ log # <<>>
    /\ Last(log).outcome = "skipped"
    /\ Last(log).reason = "no timestamp"

\* the copy of the file of log entry e in the archive
CopyOf(files, e) ==
    {f \in files : f.location = e.location /\ f.source = e.media}

C10_ReadOnlyFormat ==
    [][(log' # log /\ Placed(Last(log'))
          /\ SuffixIn(Last(log').media.name, READ_ONLY_FORMATS)) =>
        LET e == Last(log')
            t == IntOf(FoundTimestamp(e.sidecar.body))
        IN  /\ e.outcome = "copied_only"
            /\ e.exiftool_runs = 0
            /\ e.returncode = -1
            /\ e.location = Location(e.media.name, t)
            /\ CopyOf(archive', e) # {}
            /\ \A f \in CopyOf(archive', e) : f.mtime = [by |-> "utime", t |-> t]
            /\ copied_only' = copied_only + 1
            /\ folder_copied_only' = folder_copied_only + 1
            /\ processed' = processed]_vars

\* an .avi file archived as copied_only
C10_Witness ==
    \E i \in 1..Len(log) :
        /\ log[i].outcome = "copied_only"
        /\ log[i].reason = "read-only format"
        /\ EndsWith(log[i].media.name, ".avi")

\* C11: placement uses the local instant. Every archived file lies at
\* year / zero-padded month / original name of its capture timestamp in
\* America/Los_Angeles, which is also the path the auditor computes from that
\* timestamp; 1609459200 lies under 2020/12 and 1612137600 under 2021/01,
\* not under the UTC months 2021/01 and 2021/02.
C11_LocalPlacement ==
    \A i \in 1..Len(log) :
        (log[i].outcome \in {"metadata_embedded", "copied_only"}) =>
            LET e  == log[i]
                pt == e.sidecar.body.photoTakenTime.timestamp
                ts == IF pt # "" THEN pt ELSE e.sidecar.body.creationTime.timestamp
                ym == PacificYearMonth(IntOf(ts))
            IN  /\ IsNumeral(ts)
                /\ e.location = <<ToString(ym[1]), Pad2(ym[2]), e.media.name>>
                /\ e.location = ExpectedPathOf(e.media.name, ts)
                /\ ts = "1609459200" => e.location = <<"2020", "12", e.media.name>>
                /\ ts = "1612137600" => e.location = <<"2021", "01", e.media.name>>
                /\ \E f \in archive : f.location = e.location
                /\ <<e.location[1]>> \in out_dirs
                /\ <<e.location[1], e.location[2]>> \in out_dirs

\* a file taken at 2021-01-01T00:00:00Z archived under 2020/12
C11_Witness ==
    \E i \in 1..Len(log) :
        /\ log[i].sidecar.body.photoTakenTime.timestamp = "1609459200"
        /\ log[i].location = <<"2020", "12", log[i].media.name>>
        /\ \E f \in archive : f.location = log[i].location

\* C12: timestamp precedence. For a sidecar whose time fields are objects or
\* absent, _process_file, _build_cmd and _get_expected_output_path all take
\* photoTakenTime.timestamp when it is there and creationTime.timestamp only
\* when it is not; the archive location, the date handed to the Metadata
\* Writer and the auditor's expected path all come from that timestamp.
C12_TimestampPrecedence ==
    [][(log' # log /\ Last(log').sidecar # NoSidecar
          /\ Last(log').sidecar.body.kind = "object"
          /\ Last(log').sidecar.body.photoTakenTime.obj # "scalar"
          /\ Last(log').sidecar.body.creationTime.obj # "scalar") =>
        LET e     == Last(log')
            body  == e.sidecar.body
            pt    == body.photoTakenTime.timestamp
            ct    == body.creationTime.timestamp
            field == IF pt # "" THEN "photoTakenTime"
                     ELSE IF ct # "" THEN "creationTime" ELSE ""
            ts    == IF pt # "" THEN pt ELSE ct
            ym    == PacificYearMonth(IntOf(ts))
            v     == GetExpectedOutputPath(e.media.name, json_files)
        IN  /\ Timestamp(body).field = field
            /\ BuildCmdDate(body).field = field
            /\ ExpectedTimestamp(body).field = field
            /\ Timestamp(body).ts = ts
            /\ ExpectedTimestamp(body).ts = ts
            /\ IsNumeral(ts) =>
                  /\ e.location = <<ToString(ym[1]), Pad2(ym[2]), e.media.name>>
                  /\ e.exiftool_runs > 0 => e.date_str = JsonTimeToPacific(ts)
                  /\ ~v.fault /\ v.path = e.location]_vars

\* a file whose sidecar carries both timestamps, embedded
C12_Witness ==
    \E i \in 1..Len(log) :
        /\ log[i].sidecar.body.photoTakenTime.timestamp = "1609459200"
        /\ log[i].sidecar.body.creationTime.timestamp = "1612137600"
        /\ log[i].outcome = "metadata_embedded"
        /\ log[i].date_str = "2020:12:31 16:00:00"

\* C13: rule 1 matches by prefix. Whenever a candidate's name starts, case
\* apart, with the media file's name and ends with ".json", the pipeline's
\* resolver answers such a candidate under rule 1.
C13_DirectByPrefix ==
    (/\ r_match # NotCalled
     /\ \E i \in 1..Len(r_json) :
           /\ StartsWithLower(r_json[i].name, r_media)
           /\ EndsWithLower(r_json[i].name, ".json")
           /\ Len(r_json[i].name) >= Len(r_media) + 5)
        => /\ r_match.rule = 1
           /\ StartsWithLower(r_json[r_match.j].name, r_media)

\* C14: live-photo fallback. For a video "<base>.mp4" for which rules 1 to 4
\* find nothing, a candidate "<base>.JPG.json" or "<base>.HEIC.json" (case
\* apart) is what the pipeline's resolver returns, under rule 5, and what the
\* auditor's resolver returns; the file is not skipped for want of a match.
C14_LivePhotoFallback ==
    [][(/\ log' # log
        /\ EndsWithLower(Last(log').media.name, ".mp4")
        /\ \A k \in 1..4 : Hits(k, Last(log').media.name, json_files) = {}
        /\ \E i \in 1..Len(json_files) :
              \/ EqLower(json_files[i].name, DropLast(Last(log').media.name, 4) \o ".JPG.json")
              \/ EqLower(json_files[i].name, DropLast(Last(log').media.name, 4) \o ".HEIC.json")) =>
        LET e    == Last(log')
            base == DropLast(e.media.name, 4)
            v    == FindJsonForMedia(e.media.name, json_files)
        IN  /\ e.rule = 5
            /\ e.sidecar \in Range(json_files)
            /\ \/ EqLower(e.sidecar.name, base \o ".JPG.json")
               \/ EqLower(e.sidecar.name, base \o ".HEIC.json")
            /\ e.reason # "no or multi JSON"
            /\ e.outcome # "skipped"
            /\ folder_rule_counts'[5] = folder_rule_counts[5] + 1
            /\ v.j # 0 /\ json_files[v.j] = e.sidecar]_vars

\* a video archived through the sidecar of its still
C14_Witness ==
    \E i \in 1..Len(log) :
        /\ log[i].media.name = "v.mp4"
        /\ log[i].sidecar.name = "v.heic.json"
        /\ log[i].rule = 5
        /\ log[i].outcome = "metadata_embedded"

\* C15: without the Metadata Writer run() returns 1 before any work: no
\* folder is entered, no file resolved or copied, the archive root is not
\* created, no list is written and every counter stays 0.
C15_ToolUnavailableIsFatal ==
    ~exiftool_found =>
        /\ pc \in {"idle", "done"}
        /\ pc = "done" => ret = 1
        /\ yi = 0 /\ media_files = <<>> /\ json_files = <<>>
        /\ log = <<>> /\ summaries = <<>>
        /\ out_dirs = {} /\ archive = {} /\ written = {}
        /\ skipped = <<>> /\ copied_only_files = <<>>
        /\ processed = 0 /\ copied_only = 0
        /\ folder_processed = 0 /\ folder_copied_only = 0 /\ folder_skipped = 0
        /\ \A k \in 1..8 : folder_rule_counts[k] = 0

\* a run on a tree with media files and sidecars that ended for want of the tool
C15_Witness ==
    /\ ~exiftool_found
    /\ pc = "done" /\ ret = 1
    /\ input_media # <<>> /\ input_json # <<>>

(***************************************************************************)
(* Properties of repeated runs (SpecRetry).                                *)
(***************************************************************************)
\* the log entries of this run for the media files of a year folder
EntriesOf(year, outcome) ==
    {i \in 1..Len(log) : log[i].media.year = year /\ log[i].outcome = outcome}

\* the file is one the run has to handle: without --skipped_files every
\* file, with it the files whose name ends some line of the list of their year
Selected(m) ==
    skipped_files_folder.given =>
        \E f \in skipped_files_folder.files :
            /\ f.name = <<m.year, "skipped_files.txt">>
            /\ \E i \in 1..Len(f.lines) : PathName(Strip(f.lines[i])) = m.name

\* C16: the retry filter. With --skipped_files, a media file is handled iff
\* the list of its year folder exists and some line of it ends in the file's
\* name; the other files get no Outcome, move no counter and are not
\* archived, and a year folder without a list is passed over.
C16_RetryFilter ==
    /\ [](/\ \A i \in 1..Len(log) : Selected(log[i].media)
          /\ \A i \in 1..Len(summaries) :
                /\ skipped_files_folder.given => RetryLists(summaries[i].year) # {}
                /\ summaries[i].processed =
                      Cardinality(EntriesOf(summaries[i].year, "metadata_embedded"))
                /\ summaries[i].copied_only =
                      Cardinality(EntriesOf(summaries[i].year, "copied_only"))
                /\ summaries[i].skipped =
                      Cardinality(EntriesOf(summaries[i].year, "skipped"))
          /\ (pc = "done" /\ ret = 0) =>
                /\ {log[i].media : i \in 1..Len(log)} = {m \in Enumerated : Selected(m)}
                /\ processed =
                      Cardinality({i \in 1..Len(log) : log[i].outcome = "metadata_embedded"})
                /\ copied_only =
                      Cardinality({i \in 1..Len(log) : log[i].outcome = "copied_only"}))
    /\ [][\A f \in archive' \ archive :
              /\ Selected(f.source)
              /\ Len(log') = Len(log) + 1
              /\ Last(log').media = f.source
              /\ Last(log').location = f.location]_vars

\* a retry run that handled one media file and left another one out
C16_Witness ==
    /\ skipped_files_folder.given
    /\ pc = "done" /\ ret = 0
    /\ log # <<>>
    /\ \E m \in Enumerated : \A i \in 1..Len(log) : log[i].media # m

\* the lines of a list file of base, none when the file does not exist
LinesOf(files, name) ==
    IF \E f \in files : f.name = name
    THEN Range((CHOOSE f \in files : f.name = name).lines)
    ELSE {}

\* C17: the lists are exact. When a year folder is done, its skip list holds
\* exactly the paths of the files skipped in this run of the folder and its
\* copied-only list exactly those that ended copied_only, also when there are
\* none and a list of an earlier run exists.
C17_ListsAreExact ==
    [][Len(summaries') > Len(summaries) =>
        LET year == Last(summaries').year
        IN  /\ LinesOf(written', <<year, "skipped_files.txt">>) =
                  {StrPath(log[i].media) : i \in EntriesOf(year, "skipped")}
            /\ LinesOf(written', <<year, "copied_only.txt">>) =
                  {StrPath(log[i].media) : i \in EntriesOf(year, "copied_only")}]_vars

\* C18: idempotence. A second run without --skipped_files on the same tree
\* as a first one without it, the Metadata Writer answering each file as
\* before, ends with the same counters, the same summaries and the same
\* archive paths, and no media file lies at two locations.
C18_RerunIdempotent ==
    (/\ pc = "done" /\ ret = 0
     /\ runs >= 2 /\ first.ran
     /\ ~first.given /\ ~skipped_files_folder.given
     /\ \A i \in 1..Len(log), k \in 1..Len(first.log) :
           (log[i].media = first.log[k].media /\ log[i].exiftool_runs > 0)
               => log[i].returncode = first.log[k].returncode) =>
        /\ processed = first.processed
        /\ copied_only = first.copied_only
        /\ summaries = first.summaries
        /\ log = first.log
        /\ {f.location : f \in archive} = first.paths
        /\ \A f, g \in archive : f.source = g.source => f.location = g.location

\* a second full run after a first one that embedded, copied and skipped
C18_Witness ==
    /\ pc = "done" /\ ret = 0
    /\ runs = 2 /\ first.ran
    /\ ~first.given /\ ~skipped_files_folder.given
    /\ log = first.log
    /\ archive # {}
    /\ \E i \in 1..Len(log) : log[i].outcome = "skipped"
    /\ \E i \in 1..Len(log) : log[i].outcome # "skipped"

AbsentOf(year) ==
    {v_log[i].media : i \in
        {k \in 1..Len(v_log) :
            /\ v_log[k].media.year = year
            /\ v_log[k].expected # NoLocation
            /\ ~OutputFileAt(output_tree, v_log[k].expected).exists}}

\* C20: per-scope missing count. After an audit, the "output files not
\* present" count of every year summary is the number of media files of the
\* year whose expected location does not exist in the archive, the
\* not-present list of the year holds exactly their paths, and these are
\* the paths the year added to the aggregate missing_files.
C20_NotPresentCount ==
    (v_pc = "done" /\ v_ret = "True") =>
        \A i \in 1..Len(v_summaries) :
            LET year == v_summaries[i].year
                absent == {StrPath(m) : m \in AbsentOf(year)}
            IN  /\ v_summaries[i].not_present = Cardinality(absent)
                /\ LinesOf(v_written, <<year, "validation_result_not_present.txt">>) = absent
                /\ {p \in Range(result.missing_files) :
                       \E m \in Range(input_media) : m.year = year /\ StrPath(m) = p} = absent

(***************************************************************************)
(* Properties of the counters (Spec).                                      *)
(***************************************************************************)
\* C24: outcome partition. While a year folder is being handled and when it
\* is done, each of folder_processed, folder_copied_only and folder_skipped
\* is the number of files of the folder handled so far with that Outcome, so
\* that their sum is the number of files handled; skipped and
\* copied_only_files are as long as their counters; every handled file has
\* raised exactly one of the three by one; and at the end of the run
\* processed and copied_only are the sums of the per-folder counters.
C24_OutcomePartition ==
    /\ []((pc = "file") =>
            LET year == YearFolders[yi]
                handled == {i \in 1..Len(log) :
                               log[i].media.year = year /\ log[i].outcome # "fault"}
            IN  /\ folder_processed + folder_copied_only + folder_skipped
                      = Cardinality(handled)
                /\ Cardinality(handled) = mi - 1
                /\ folder_processed = Cardinality(EntriesOf(year, "metadata_embedded"))
                /\ folder_copied_only = Cardinality(EntriesOf(year, "copied_only"))
                /\ folder_skipped = Cardinality(EntriesOf(year, "skipped"))
                /\ Len(skipped) = folder_skipped
                /\ Len(copied_only_files) = folder_copied_only)
    /\ []((pc = "done" /\ ret = 0) =>
            LET Sum(F(_)) ==
                    LET S[n \in 0..Len(summaries)] ==
                            IF n = 0 THEN 0 ELSE S[n - 1] + F(summaries[n])
                    IN  S[Len(summaries)]
                Processed(s) == s.processed
                CopiedOnly(s) == s.copied_only
            IN  /\ processed = Sum(Processed)
                /\ copied_only = Sum(CopiedOnly))
    /\ [][(Len(log') > Len(log) /\ Last(log').outcome # "fault") =>
            /\ (folder_processed' + folder_copied_only' + folder_skipped')
                  = (folder_processed + folder_copied_only + folder_skipped) + 1
            /\ folder_processed' \in {folder_processed, folder_processed + 1}
            /\ folder_copied_only' \in {folder_copied_only, folder_copied_only + 1}
            /\ folder_skipped' \in {folder_skipped, folder_skipped + 1}]_vars

\* a run over two year folders that embedded, copied and skipped
C24_Witness ==
    /\ pc = "done" /\ ret = 0
    /\ Len(summaries) = 2
    /\ summaries[1].processed = 1 /\ summaries[2].copied_only = 1
    /\ processed = 1 /\ copied_only = 1

\* C25: per-rule counters count matches. When a year folder is done, the
\* counter of every rule is the number of media files of the folder that
\* _match_json resolved under that rule, so that the eight add up to the
\* number of files it returned a sidecar for, which is folder_processed +
\* folder_copied_only + the number of files skipped after a match; resolving a
\* file raises exactly the counter of its rule by one, and a file without a
\* match raises none.
C25_RuleCountersCountMatches ==
    /\ [](\A n \in 1..Len(summaries) :
            LET s == summaries[n]
                matched == {i \in 1..Len(log) :
                               log[i].media.year = s.year /\ log[i].rule \in 1..8}
                after == {i \in EntriesOf(s.year, "skipped") :
                             log[i].reason \in {"bad JSON", "no timestamp"}}
                Total[k \in 0..8] == IF k = 0 THEN 0 ELSE Total[k - 1] + s.rule_counts[k]
            IN  /\ \A k \in 1..8 :
                      s.rule_counts[k] = Cardinality({i \in matched : log[i].rule = k})
                /\ Total[8] = Cardinality(matched)
                /\ Total[8] = s.processed + s.copied_only + Cardinality(after)
                /\ \A i \in matched : log[i].sidecar # NoSidecar
                /\ \A i \in EntriesOf(s.year, "skipped") \ after :
                      log[i].rule = 0 /\ log[i].sidecar = NoSidecar)
    /\ [][Len(log') > Len(log) =>
            \A k \in 1..8 :
                folder_rule_counts'[k] =
                    folder_rule_counts[k] + (IF Last(log').rule = k THEN 1 ELSE 0)]_vars

\* a year folder done with a file matched by title and skipped for its
\* sidecar, and a file without a match
C25_Witness ==
    /\ Len(summaries) >= 1
    /\ summaries[1].rule_counts[8] = 1
    /\ summaries[1].skipped = 2
    /\ summaries[1].processed + summaries[1].copied_only = 0
    /\ \E i \in 1..Len(log) : log[i].reason = "no or multi JSON"
    /\ \E i \in 1..Len(log) : log[i].rule = 8 /\ log[i].outcome = "skipped"

(***************************************************************************)
(* Properties of the Metadata Writer command.                              *)
(***************************************************************************)
\* the values of the arguments of a command that begin with a tag
ValuesOf(cmd, tag) ==
    {SubSeq(cmd[k], Len(tag) + 1, Len(cmd[k])) :
        k \in {n \in 1..Len(cmd) : /\ Len(cmd[n]) >= Len(tag)
                                   /\ SubSeq(cmd[n], 1, Len(tag)) = tag}}

\* C26: writer date fields. Every command the pipeline builds for a file
\* sets DateTimeOriginal, CreateDate, ModifyDate, FileModifyDate and
\* FileCreateDate, each once and all to one string of the form
\* YYYY:MM:DD HH:MM:SS, which is the Pacific time of the timestamp the
\* sidecar yields (2021-01-01T00:00:00Z is 2020:12:31 16:00:00,
\* 2021-02-01T00:00:00Z is 2021:01:31 16:00:00) and whose year and month are
\* those of the file's archive partition; for a file whose sidecar yields no
\* timestamp no command is built.
C26_WriterDateFields ==
    \A i \in 1..Len(log) :
        LET e == log[i]
            tags == {"-DateTimeOriginal=", "-CreateDate=", "-ModifyDate=",
                     "-FileModifyDate=", "-FileCreateDate="}
            ts == Timestamp(e.sidecar.body).ts
        IN  IF e.exiftool_runs > 0
            THEN /\ IsNumeral(ts)
                 /\ \A t \in tags :
                       /\ Cardinality({k \in 1..Len(e.cmd) :
                                          Len(e.cmd[k]) >= Len(t)
                                            /\ SubSeq(e.cmd[k], 1, Len(t)) = t}) = 1
                       /\ Cardinality(ValuesOf(e.cmd, t)) = 1
                 /\ \E d \in ValuesOf(e.cmd, "-DateTimeOriginal=") :
                       /\ \A t \in tags : ValuesOf(e.cmd, t) = {d}
                       /\ Len(d) = 19
                       /\ \A k \in 1..19 :
                             IF k \in {5, 8, 14, 17} THEN CharAt(d, k) = ":"
                             ELSE IF k = 11 THEN CharAt(d, k) = " "
                             ELSE CharAt(d, k) \in Digits
                       /\ SubSeq(d, 1, 4) = e.location[1]
                       /\ SubSeq(d, 6, 7) = e.location[2]
                       /\ ts = "1609459200" => d = "2020:12:31 16:00:00"
                       /\ ts = "1612137600" => d = "2021:01:31 16:00:00"
            ELSE /\ e.cmd = <<>>
                 /\ (e.outcome # "fault" /\ IsNumeral(ts) /\ e.sidecar # NoSidecar
                       /\ Truthy(e.sidecar.body))
                        => (e.outcome = "copied_only" /\ e.reason = "read-only format")

\* a command built from a sidecar whose creationTime alone carries a
\* timestamp, and a file skipped for want of one
C26_Witness ==
    /\ \E i \in 1..Len(log) :
          /\ log[i].exiftool_runs > 0
          /\ Timestamp(log[i].sidecar.body).field = "creationTime"
          /\ "-FileCreateDate=2021:01:31 16:00:00" \in Range(log[i].cmd)
          /\ log[i].location[1] = "2021" /\ log[i].location[2] = "01"
    /\ \E i \in 1..Len(log) : log[i].reason = "no timestamp"

C28_UtimeAgreesWithPlacement ==
    /\ \A i \in 1..Len(log) :
          log[i].outcome = "copied_only" =>
              \A f \in archive :
                  (f.source = log[i].media /\ f.location = log[i].location) =>
                      /\ f.mtime.by = "utime"
                      /\ f.mtime.t = IntOf(Timestamp(log[i].sidecar.body).ts)
    /\ \A f \in archive :
          f.mtime.by = "utime" =>
              /\ \E i \in 1..Len(log) :
                    /\ log[i].outcome = "copied_only"
                    /\ log[i].media = f.source /\ log[i].location = f.location
              /\ ToString(PacificYearMonth(f.mtime.t)[1]) = f.location[1]
              /\ Pad2(PacificYearMonth(f.mtime.t)[2]) = f.location[2]
              /\ \A year \in 2019..2022 :
                    InvalidDateFiles(
                        [exists |-> TRUE,
                         files |-> {[location |-> f.location, size |-> InputSize(f.source),
                                     mtime |-> f.mtime.t]}],
                        year) = <<>>

\* a run that left a copy of a read-only format and a copy whose embedding
\* failed
C28_Witness ==
    /\ pc = "done" /\ ret = 0
    /\ \E i, k \in 1..Len(log) :
          /\ log[i].outcome = "copied_only" /\ log[i].reason = "read-only format"
          /\ log[k].outcome = "copied_only" /\ log[k].reason = "embedding failed"
    /\ Cardinality({f \in archive : f.mtime.by = "utime"}) = 2

\* C29: no archive overwrite between distinct sources. In a run, two
\* different media files that end metadata_embedded or copied_only are never
\* written to the same archive location, and after the run the archive holds
\* processed + copied_only files.
C29_NoOverwrite ==
    /\ \A i, k \in 1..Len(log) :
          (/\ log[i].media # log[k].media
           /\ log[i].outcome \in {"metadata_embedded", "copied_only"}
           /\ log[k].outcome \in {"metadata_embedded", "copied_only"})
              => log[i].location # log[k].location
    /\ (pc = "done" /\ ret = 0) => Cardinality(archive) = processed + copied_only

(***************************************************************************)
(* Properties of the date check and of the orphans (SpecAudit).            *)
(***************************************************************************)
\* C21: the date check covers the whole archive. After a full audit every
\* media file of every year/month folder of the archive whose modification
\* time is outside its folder is in an invalid-date list, also when the
\* year of the folder has no 'Photos from' folder in the input.
C21_DateCheckCoversArchive ==
    (v_pc = "done" /\ v_ret = "True") =>
        \A f \in {g \in output_tree.files :
                    /\ SuffixIn(g.location[3], MEDIA_EXTS)
                    /\ \/ ToString(PacificYearMonth(g.mtime)[1]) # g.location[1]
                       \/ Pad2(PacificYearMonth(g.mtime)[2]) # g.location[2]} :
            \E i \in 1..Len(v_summaries) :
                f.location \in LinesOf(v_written, <<v_summaries[i].year,
                                                   "validation_result_invalid_date.txt">>)

\* C22: orphan detection. After an audit, for every year the orphans
\* reported (in the list of the year and in the count of its summary) are
\* exactly the sidecars of the year that the resolver returned for no media
\* file of the year; every one of them has its copy under orphan_json, in
\* the folder of the year; and the url of every one that has a url is in
\* the list of the urls of the year.
C22_OrphanDetection ==
    (v_pc = "done" /\ v_ret = "True") =>
        \A i \in 1..Len(v_summaries) :
            LET year == v_summaries[i].year
                returned == {v_log[k].sidecar : k \in
                                {l \in 1..Len(v_log) : v_log[l].media.year = year}}
                orphans == {j \in Range(input_json) : j.year = year} \ returned
            IN  /\ v_summaries[i].orphans = Cardinality(orphans)
                /\ LinesOf(v_written, <<year, "validation_result_orphan_json.txt">>)
                      = {StrPath(j) : j \in orphans}
                /\ \A j \in orphans :
                      /\ [scope |-> year, name |-> j.name, body |-> j.body] \in orphan_json
                      /\ (j.body.kind = "object" /\ j.body.url # "") =>
                            j.body.url \in
                              LinesOf(v_written,
                                      <<year, "validation_result_orphan_json_url.txt">>)

====
